---- MODULE Spec2Model ----
(***************************************************************************)
(* A model of the JSL state-estimation code: the extended Kalman smoother  *)
(* (jsl/nlds/extended_kalman_smoother.py), the diagonal extended Kalman    *)
(* filter (jsl/nlds/diagonal_extended_kalman_filter.py), the online linear *)
(* regression demo (jsl/demos/linreg_kf.py) and the EEKF agent             *)
(* (jsl/sent/agents/eekf.py).                                              *)
(*                                                                         *)
(* Numbers are exact rationals <<numerator, denominator>>; a denominator   *)
(* of 0 stands for a non-finite floating-point value (inf or NaN), which   *)
(* is absorbing under +, - and * exactly as in IEEE arithmetic.            *)
(***************************************************************************)
EXTENDS Integers, Sequences, FiniteSets, TLC

(***************************************************************************)
(* Bounds of the model.                                                    *)
(***************************************************************************)
MaxDim == 2
MaxT == 3

(***************************************************************************)
(* Evaluation helpers: the value of F at the values of its arguments, each *)
(* argument being evaluated once.                                          *)
(***************************************************************************)
Let1(x, F(_)) == CHOOSE r \in {F(a) : a \in {x}} : TRUE

Let2(x, y, F(_, _)) == CHOOSE r \in {F(a, b) : a \in {x}, b \in {y}} : TRUE

Let3(x, y, z, F(_, _, _)) ==
    CHOOSE r \in {F(a, b, c) : a \in {x}, b \in {y}, c \in {z}} : TRUE

\* Python's optional values: None, and a value that is given
None == << >>

Some(v) == <<v>>

\* a function on 1..n as an explicit sequence
Vec(f) == f \o << >>

\* a function on a set of names as an explicit dictionary
Dict(f) == f @@ << >>

(***************************************************************************)
(* Exact rational arithmetic on <<numerator, denominator>> in lowest terms *)
(* with a positive denominator.  Two values have denominator 0: NaN, the   *)
(* non-finite result (inf or NaN) of a division by zero, and Big, a value  *)
(* whose numerator or denominator leaves the range the model computes in.  *)
(* Both are absorbing, NaN before Big.                                     *)
(***************************************************************************)
RatRange == 1000000000

Abs(x) == IF x < 0 THEN -x ELSE x

RECURSIVE GCD(_, _)
GCD(a, b) == IF b = 0 THEN a ELSE GCD(b, a % b)

NaN == <<0, 0>>

Big == <<1, 0>>

Finite(x) == x[2] # 0

\* the product a * b stays in range
Fits(a, b) == a = 0 \/ b = 0 \/ Abs(a) <= RatRange \div Abs(b)

Norm(n, d) ==
    Let1(GCD(Abs(n), Abs(d)),
         LAMBDA g : IF d < 0 THEN <<(-n) \div g, (-d) \div g>> ELSE <<n \div g, d \div g>>)

Rat(n) == <<n, 1>>

RAdd(x0, y0) ==
    Let2(x0, y0, LAMBDA x, y :
        IF x = NaN \/ y = NaN THEN NaN
        ELSE IF x = Big \/ y = Big THEN Big
        ELSE Let1(GCD(x[2], y[2]), LAMBDA g :
                IF Fits(x[1], y[2] \div g) /\ Fits(y[1], x[2] \div g)
                   /\ Fits(x[2] \div g, y[2])
                THEN Norm(x[1] * (y[2] \div g) + y[1] * (x[2] \div g), (x[2] \div g) * y[2])
                ELSE Big))

RNeg(x0) == Let1(x0, LAMBDA x : IF Finite(x) THEN <<-x[1], x[2]>> ELSE x)

RSub(x, y) == RAdd(x, RNeg(y))

RMul(x0, y0) ==
    Let2(x0, y0, LAMBDA x, y :
        IF x = NaN \/ y = NaN THEN NaN
        ELSE IF x = Big \/ y = Big THEN Big
        ELSE Let2(Norm(x[1], y[2]), Norm(y[1], x[2]), LAMBDA a, b :
                IF Fits(a[1], b[1]) /\ Fits(a[2], b[2])
                THEN Norm(a[1] * b[1], a[2] * b[2])
                ELSE Big))

\* x / y; a division by zero gives a non-finite value, as in floating point,
\* and raises nothing
RDiv(x0, y0) ==
    Let2(x0, y0, LAMBDA x, y :
        IF x = NaN \/ y = NaN \/ (Finite(y) /\ y[1] = 0) THEN NaN
        ELSE IF x = Big \/ y = Big THEN Big
        ELSE RMul(x, Norm(y[2], y[1])))

\* the sum f[1] + ... + f[k] of a sequence f
RECURSIVE RSum(_, _)
RSum(f, k) == IF k = 0 THEN Rat(0) ELSE RAdd(RSum(f, k - 1), f[k])

(***************************************************************************)
(* Vectors are sequences of rationals, matrices are sequences of rows.     *)
(***************************************************************************)
VecAdd(u0, v0) ==
    Let2(u0, v0, LAMBDA u, v : Vec([i \in 1..Len(u) |-> RAdd(u[i], v[i])]))

VecSub(u0, v0) ==
    Let2(u0, v0, LAMBDA u, v : Vec([i \in 1..Len(u) |-> RSub(u[i], v[i])]))

Dot(u0, v0) ==
    Let2(u0, v0, LAMBDA u, v :
        Let1(Vec([i \in 1..Len(u) |-> RMul(u[i], v[i])]), LAMBDA w : RSum(w, Len(w))))

MatVec(A0, v0) ==
    Let2(A0, v0, LAMBDA A, v : Vec([i \in 1..Len(A) |-> Dot(A[i], v)]))

Transpose(A0) ==
    Let1(A0, LAMBDA A :
        Vec([j \in 1..Len(A[1]) |-> Vec([i \in 1..Len(A) |-> A[i][j]])]))

MatMul(A0, B0) ==
    Let2(A0, Transpose(B0), LAMBDA A, Bt :
        Vec([i \in 1..Len(A) |-> Vec([j \in 1..Len(Bt) |-> Dot(A[i], Bt[j])])]))

MatAdd(A0, B0) ==
    Let2(A0, B0, LAMBDA A, B : Vec([i \in 1..Len(A) |-> VecAdd(A[i], B[i])]))

MatSub(A0, B0) ==
    Let2(A0, B0, LAMBDA A, B : Vec([i \in 1..Len(A) |-> VecSub(A[i], B[i])]))

MatScale(c0, A0) ==
    Let2(c0, A0, LAMBDA c, A :
        Vec([i \in 1..Len(A) |-> Vec([j \in 1..Len(A[1]) |-> RMul(c, A[i][j])])]))

Eye(n) == Vec([i \in 1..n |-> Vec([j \in 1..n |-> IF i = j THEN Rat(1) ELSE Rat(0)])])

Zeros(n) == Vec([i \in 1..n |-> Rat(0)])

Ones(n) == Vec([i \in 1..n |-> Rat(1)])

Diag(v0) ==
    Let1(v0, LAMBDA v :
        Vec([i \in 1..Len(v) |-> Vec([j \in 1..Len(v) |-> IF i = j THEN v[i] ELSE Rat(0)])]))

\* M without row i and column j; M is a value
Minor(M, i, j) ==
    Vec([r \in 1..(Len(M) - 1) |-> Vec([c \in 1..(Len(M) - 1) |->
        M[IF r < i THEN r ELSE r + 1][IF c < j THEN c ELSE c + 1]])])

\* the determinant, by expansion along the first row
RECURSIVE Det(_)
Det(M0) ==
    Let1(M0, LAMBDA M :
        IF Len(M) = 1 THEN M[1][1]
        ELSE Let1(Vec([j \in 1..Len(M) |->
                        RMul(IF j % 2 = 1 THEN M[1][j] ELSE RNeg(M[1][j]),
                             Det(Minor(M, 1, j)))]),
                  LAMBDA w : RSum(w, Len(w))))

Cofactor(M, i, j) ==
    IF Len(M) = 1 THEN Rat(1)
    ELSE IF (i + j) % 2 = 0 THEN Det(Minor(M, i, j)) ELSE RNeg(Det(Minor(M, i, j)))

\* the matrix inverse (jnp.linalg.inv, jnp.linalg.solve); every entry of the
\* inverse of a singular matrix is non-finite: the LU solve divides by a zero
\* pivot and raises nothing
Inverse(M0) ==
    Let1(M0, LAMBDA M :
        Let1(Det(M), LAMBDA d :
            Vec([i \in 1..Len(M) |-> Vec([j \in 1..Len(M) |-> RDiv(Cofactor(M, j, i), d)])])))

VecFinite(v) == \A i \in 1..Len(v) : Finite(v[i])

MatFinite(A) == \A i \in 1..Len(A) : VecFinite(A[i])

Singular(M) == Det(M) = Rat(0)

\* v holds a non-finite value (inf or NaN)
VecHasNaN(v) == \E i \in 1..Len(v) : v[i] = NaN

MatHasNaN(A) == \E i \in 1..Len(A) : VecHasNaN(A[i])

(***************************************************************************)
(* The model object (NLDS): transition fz, observation fx and the noise    *)
(* covariances Qz, Rx.  The families below are the models that are run    *)
(* here: a linear transition (the identity or a shear, whose transition    *)
(* matrix does not commute with a covariance) and a nonlinear one (the     *)
(* componentwise max(z, 0), whose Jacobian depends on where it is taken).  *)
(***************************************************************************)
Shear(n) ==
    Vec([i \in 1..n |-> Vec([j \in 1..n |-> IF j = i \/ j = i + 1 THEN Rat(1) ELSE Rat(0)])])

\* params.fz
fz(p, z) ==
    CASE p.fz = "id" -> z
      [] p.fz = "shear" -> MatVec(Shear(Len(z)), z)
      [] p.fz = "relu" -> Vec([i \in 1..Len(z) |-> IF z[i][1] > 0 \/ ~Finite(z[i]) THEN z[i] ELSE Rat(0)])

\* jax.jacrev(params.fz): the Jacobian of fz at z
Dfz(p, z) ==
    CASE p.fz = "id" -> Eye(Len(z))
      [] p.fz = "shear" -> Shear(Len(z))
      [] p.fz = "relu" -> Diag(Vec([i \in 1..Len(z) |-> IF z[i][1] > 0 THEN Rat(1) ELSE Rat(0)]))

\* params.Qz(z, t): process noise, here (q0 + qt * t) * I
Qz(p, z, t) == MatScale(Rat(p.q0 + p.qt * t), Eye(Len(z)))

\* the matrix of the observation "tri": row i sums the coordinates from i on
Tri(m, n) ==
    Vec([i \in 1..m |-> Vec([j \in 1..n |-> IF j >= i THEN Rat(1) ELSE Rat(0)])])

\* the size of an observation
ObsDim(p) == IF p.fx = "tri" THEN p.m ELSE 1

\* params.fx(z, *obs): "first" observes the first coordinate, "tri" p.m sums of
\* coordinates, and "lin" is the regression observation obs . z of a covariate
\* row obs; "first" and "tri" take and ignore the covariate
fx(p, z, obs) ==
    CASE p.fx = "first" -> <<z[1]>>
      [] p.fx = "tri" -> MatVec(Tri(p.m, Len(z)), z)
      [] p.fx = "lin" -> <<Dot(obs[1], z)>>

\* jacrev(fx): the Jacobian of fx at z
Dfx(p, z, obs) ==
    CASE p.fx = "first" -> <<Vec([j \in 1..Len(z) |-> IF j = 1 THEN Rat(1) ELSE Rat(0)])>>
      [] p.fx = "tri" -> Tri(p.m, Len(z))
      [] p.fx = "lin" -> <<obs[1]>>

\* params.Rx(z, *obs): observation noise
Rx(p, z, obs) == MatScale(Rat(p.r), Eye(ObsDim(p)))

(***************************************************************************)
(* jsl.nlds.extended_kalman_filter.filter: the standard extended Kalman    *)
(* filter the smoother and the agent call.                                 *)
(***************************************************************************)
\* one predict/update step of the extended filter
EkfStep(p, eps, st0, xt, obs) ==
    Let1(st0, LAMBDA st :
    Let2(Dfz(p, st.mean), fz(p, st.mean), LAMBDA Gt, mu_cond :
    Let2(MatAdd(MatMul(MatMul(Gt, st.cov), Transpose(Gt)), Qz(p, st.mean, st.t)),
         Dfx(p, mu_cond, obs), LAMBDA V_cond, Ht :
    Let1(MatAdd(MatAdd(MatMul(MatMul(Ht, V_cond), Transpose(Ht)), Rx(p, mu_cond, obs)),
                MatScale(eps, Eye(Len(xt)))), LAMBDA S :
    Let1(MatMul(MatMul(V_cond, Transpose(Ht)), Inverse(S)), LAMBDA K :
        [mean |-> VecAdd(mu_cond, MatVec(K, VecSub(xt, fx(p, mu_cond, obs)))),
         cov |-> MatMul(MatSub(Eye(Len(st.mean)), MatMul(K, Ht)), V_cond),
         t |-> st.t + 1])))))

\* the filter states after each of the first k observations
RECURSIVE EkfScan(_, _, _, _, _, _)
EkfScan(p, eps, st0, ys, covs, k) ==
    IF k = 0 THEN << >>
    ELSE Let1(EkfScan(p, eps, st0, ys, covs, k - 1), LAMBDA h :
            Append(h, EkfStep(p, eps, IF k = 1 THEN st0 ELSE h[k - 1], ys[k], covs[k])))

\* ekf.filter(params, init_state, observations, covariates, Vinit, ...):
\* the final (mean, cov) and the history of the filtered means and covariances
EkfFilter(p, eps, init_state, Vinit, ys, covs) ==
    Let1(EkfScan(p, eps, [mean |-> init_state, cov |-> Vinit, t |-> 0], ys, covs, Len(ys)),
         LAMBDA h :
        [final |-> IF Len(h) = 0 THEN [mean |-> init_state, cov |-> Vinit]
                   ELSE [mean |-> h[Len(h)].mean, cov |-> h[Len(h)].cov],
         hist |-> [mean |-> Vec([k \in 1..Len(h) |-> h[k].mean]),
                   cov |-> Vec([k \in 1..Len(h) |-> h[k].cov])]])

(***************************************************************************)
(* extended_kalman_smoother.smooth_step                                    *)
(***************************************************************************)
\* line 25: the predicted mean
mean_next_hat(p, mean_kf) == fz(p, mean_kf)

\* a predicted covariance that carries a regularisation
cov_next_hat_regularised(p, mean_kf, cov_kf, t) ==
    Let1(Dfz(p, mean_kf), LAMBDA F :
        MatAdd(MatAdd(MatMul(MatMul(F, cov_kf), Transpose(F)), Qz(p, mean_kf, t)),
               Eye(Len(mean_kf))))

\* line 26: the predicted covariance
cov_next_hat(p, mean_kf, cov_kf, t) ==
    Let1(Dfz(p, mean_kf), LAMBDA F :
        MatAdd(MatMul(MatMul(F, cov_kf), Transpose(F)), Qz(p, mean_kf, t)))

\* line 27: the regularised predicted covariance
cov_next_hat_eps(p, eps, mean_kf, cov_kf, t) ==
    MatAdd(cov_next_hat(p, mean_kf, cov_kf, t), MatScale(eps, Eye(Len(mean_kf))))

\* line 28: jnp.linalg.solve(cov_next_hat_eps, Dfz(mean_kf).T) @ cov_kf
kalman_gain(p, eps, mean_kf, cov_kf, t) ==
    MatMul(MatMul(Inverse(cov_next_hat_eps(p, eps, mean_kf, cov_kf, t)),
                  Transpose(Dfz(p, mean_kf))),
           cov_kf)

\* smooth_step handing on the time index it was given
smooth_step_keeps_t(state0, xs0, p, eps, return_params) ==
    Let2(state0, xs0, LAMBDA state, xs :
    Let2(kalman_gain(p, eps, xs[1], xs[2], state.t),
         cov_next_hat(p, xs[1], xs[2], state.t), LAMBDA G, P :
    Let2(VecAdd(xs[1], MatVec(G, VecSub(state.mean, mean_next_hat(p, xs[1])))),
         MatAdd(xs[2], MatMul(MatMul(G, MatSub(state.cov, P)), Transpose(G))),
         LAMBDA mean_prev, cov_prev :
        [prev_state |-> [mean |-> mean_prev, cov |-> cov_prev, t |-> state.t],
         carry |-> Dict([key \in {"mean", "cov"} \cap return_params |->
                            IF key = "mean" THEN mean_prev ELSE cov_prev]),
         gain |-> G])))

\* lines 22-37: the step; state is the carry (mean_next, cov_next, t), xs the
\* filter entry (mean_kf, cov_kf); the output is restricted to return_params
smooth_step(state0, xs0, p, eps, return_params) ==
    Let2(state0, xs0, LAMBDA state, xs :
    Let2(kalman_gain(p, eps, xs[1], xs[2], state.t),
         cov_next_hat(p, xs[1], xs[2], state.t), LAMBDA G, P :
    Let2(VecAdd(xs[1], MatVec(G, VecSub(state.mean, mean_next_hat(p, xs[1])))),
         MatAdd(xs[2], MatMul(MatMul(G, MatSub(state.cov, P)), Transpose(G))),
         LAMBDA mean_prev, cov_prev :
        [prev_state |-> [mean |-> mean_prev, cov |-> cov_prev, t |-> state.t - 1],
         carry |-> Dict([key \in {"mean", "cov"} \cap return_params |->
                            IF key = "mean" THEN mean_prev ELSE cov_prev]),
         gain |-> G])))

(***************************************************************************)
(* State.                                                                  *)
(***************************************************************************)
VARIABLES
    smooth_args,    \* the arguments of the call of smooth
    smooth_pc,      \* where the call of smooth is: "call", "scan", "done", "error"
    hist_filter,    \* smooth: the history ekf.filter returned
    kf_hist_mean,   \* smooth: the filtered means without the last one
    kf_hist_cov,    \* smooth: the filtered covariances without the last one
    smooth_state,   \* smooth: the carry of the backward scan
    scan_i,         \* smooth: the number of entries the reverse scan has left
    hist_smooth,    \* smooth: the stacked outputs of the scan
    hist,           \* smooth: the returned dictionary
    steps           \* smooth: the backward steps run so far, first run first

smooth_vars ==
    <<smooth_args, smooth_pc, hist_filter, kf_hist_mean, kf_hist_cov, smooth_state,
      scan_i, hist_smooth, hist, steps>>


(***************************************************************************)
(* extended_kalman_smoother.smooth                                         *)
(***************************************************************************)
\* the models, priors and observation sequences smooth is called with
SmoothModels ==
    [fz : {"id", "shear", "relu"}, q0 : {0, 1}, qt : {0, 1}, fx : {"first"}, r : {1}]

ObsSeqs(T) == {Vec([k \in 1..T |-> <<Rat(0)>>]), Vec([k \in 1..T |-> <<Rat(2 * (k % 2) - 1)>>])}

SmoothInit ==
    /\ \E n \in 1..MaxDim, T \in 1..MaxT :
       \E p \in SmoothModels, ys \in ObsSeqs(T), x0 \in {Zeros(n)},
          e \in {Rat(0), Rat(1)},
          rp \in {None} \cup {Some(names) : names \in SUBSET {"mean", "cov"}},
          rfh \in BOOLEAN :
          /\ p.q0 + p.qt <= 1
          /\ rfh = (rp \in {Some({"mean"}), Some({"cov"})})
          /\ smooth_args = [params |-> p, init_state |-> x0, observations |-> ys,
                            covariates |-> Vec([k \in 1..T |-> None]), Vinit |-> Eye(n),
                            return_params |-> rp, eps |-> e,
                            return_filter_history |-> rfh]
    /\ smooth_pc = "call"
    /\ hist_filter = None
    /\ kf_hist_mean = << >>
    /\ kf_hist_cov = << >>
    /\ smooth_state = None
    /\ scan_i = 0
    /\ hist_smooth = None
    /\ hist = None
    /\ steps = << >>

\* x[1:]
AllButFirst(x) == SubSeq(x, 2, Len(x))

\* x[:-1]
AllButLast(x) == SubSeq(x, 1, Len(x) - 1)

\* x[-1]
Last(x) == x[Len(x)]

\* lines 50-72 up to the first step of the scan: the filter runs, its history
\* is split into the last entry and the rest, and the scan traces smooth_step,
\* whose line 35 raises a TypeError when return_params is None
SmoothCall ==
    /\ smooth_pc = "call"
    /\ \E a \in {smooth_args} :
       \E f \in {EkfFilter(a.params, a.eps, a.init_state, a.Vinit, a.observations,
                           a.covariates)} :
           /\ hist_filter' = f.hist
           /\ kf_hist_mean' = AllButLast(f.hist.mean)
           /\ kf_hist_cov' = AllButLast(f.hist.cov)
           /\ smooth_state' = [mean |-> Last(f.hist.mean), cov |-> Last(f.hist.cov),
                               t |-> Len(AllButLast(f.hist.mean)) - 1]
           /\ scan_i' = Len(AllButLast(f.hist.mean))
           /\ IF a.return_params = None
              THEN /\ smooth_pc' = "error"
                   /\ hist_smooth' = None
              ELSE /\ smooth_pc' = "scan"
                   /\ hist_smooth' = Dict([key \in {"mean", "cov"} \cap a.return_params[1] |->
                                              << >>])
    /\ UNCHANGED <<smooth_args, hist, steps>>

\* one step of jax.lax.scan(smooth_step_partial, init_state, xs, reverse=True):
\* the entries are consumed from the last to the first and each output is
\* stored at the place of the entry it was computed from
SmoothStep ==
    /\ smooth_pc = "scan"
    /\ scan_i >= 1
    /\ \E a \in {smooth_args}, xs \in {<<kf_hist_mean[scan_i], kf_hist_cov[scan_i]>>} :
       \E out \in {smooth_step(smooth_state, xs, a.params, a.eps, a.return_params[1])} :
           /\ smooth_state' = out.prev_state
           /\ hist_smooth' = Dict([key \in DOMAIN hist_smooth |->
                                      <<out.carry[key]>> \o hist_smooth[key]])
           /\ steps' = Append(steps, [entry |-> scan_i - 1, t |-> smooth_state.t,
                                      mean_next |-> smooth_state.mean,
                                      cov_next |-> smooth_state.cov,
                                      mean_kf |-> xs[1], cov_kf |-> xs[2],
                                      kalman_gain |-> out.gain,
                                      mean_prev |-> out.prev_state.mean,
                                      cov_prev |-> out.prev_state.cov])
    /\ scan_i' = scan_i - 1
    /\ UNCHANGED <<smooth_args, smooth_pc, hist_filter, kf_hist_mean, kf_hist_cov, hist>>

\* lines 74-79
SmoothReturn ==
    /\ smooth_pc = "scan"
    /\ scan_i = 0
    /\ hist' = [smooth |-> hist_smooth,
                filter |-> IF smooth_args.return_filter_history THEN Some(hist_filter) ELSE None]
    /\ smooth_pc' = "done"
    /\ UNCHANGED <<smooth_args, hist_filter, kf_hist_mean, kf_hist_cov, smooth_state,
                   scan_i, hist_smooth, steps>>

SmoothNext == SmoothCall \/ SmoothStep \/ SmoothReturn

(***************************************************************************)
(* diagonal_extended_kalman_filter.filter                                  *)
(***************************************************************************)
MaxObsDim == 2

VARIABLES
    diag_args,      \* the arguments of the call of the diagonal filter
    diag_pc,        \* where the call is: "call", "scan", "done", "error"
    diag_state,     \* the carry (mu_t, Vt, t) of the scan
    diag_k,         \* the number of rows of xs the scan has consumed
    mu_t_hist,      \* the stacked outputs of the scan
    diag_result,    \* the returned pair
    diag_steps      \* the rows handed to filter_step so far

diag_vars ==
    <<diag_args, diag_pc, diag_state, diag_k, mu_t_hist, diag_result, diag_steps>>

\* params.Qz for the diagonal filter: the process-noise variances
\* (q0 + qt * t) of each coordinate; called without a time it is q0
QzDiag(p, z, t) == Vec([i \in 1..Len(z) |-> Rat(p.q0 + p.qt * t)])

QzDiagNoTime(p, z) == Vec([i \in 1..Len(z) |-> Rat(p.q0)])

\* the sum over i, j in 1..m of f(i, j)
Sum2(m, f(_, _)) ==
    Let1(Vec([i \in 1..m |->
                Let1(Vec([j \in 1..m |-> f(i, j)]), LAMBDA w : RSum(w, m))]),
         LAMBDA w : RSum(w, m))

\* jnp.einsum("id,jd,d->ij", Ht, Ht, Vt)
EinsumInnovation(Ht, Vt) ==
    Vec([i \in 1..Len(Ht) |-> Vec([j \in 1..Len(Ht) |->
        Let1(Vec([d \in 1..Len(Vt) |-> RMul(RMul(Ht[i][d], Ht[j][d]), Vt[d])]),
             LAMBDA w : RSum(w, Len(w)))])])

\* the mean correction without the variance factor: "is,ij,j->s"
EinsumMeanWithoutVariance(Vt, Ht, A, xi) ==
    Vec([s \in 1..Len(Vt) |->
        Sum2(Len(Ht), LAMBDA i, j : RMul(Ht[i][s], RMul(A[i][j], xi[j])))])

\* jnp.einsum("s,is,ij,j->s", Vt, Ht, A, xi)
EinsumMean(Vt, Ht, A, xi) ==
    Vec([s \in 1..Len(Vt) |->
        Sum2(Len(Ht), LAMBDA i, j : RMul(RMul(Vt[s], Ht[i][s]), RMul(A[i][j], xi[j])))])

\* jnp.einsum("s,is,ij,is,s->s", Vt, Ht, A, Ht, Vt)
EinsumVariance(Vt, Ht, A) ==
    Vec([s \in 1..Len(Vt) |->
        Sum2(Len(Ht), LAMBDA i, j :
            RMul(RMul(RMul(Vt[s], Ht[i][s]), A[i][j]), RMul(Ht[i][s], Vt[s])))])

\* lines 50-73: filter_step; state is (mu_t, Vt, t), xs is (xt, obs)
filter_step(p, state0, xs0) ==
    Let2(state0, xs0, LAMBDA state, xs :
    Let1(fz(p, state.mu_t), LAMBDA mu_t_cond :
    Let2(Dfx(p, mu_t_cond, xs[2]), VecSub(xs[1], fx(p, mu_t_cond, xs[2])), LAMBDA Ht, xi :
    Let1(MatAdd(Rx(p, mu_t_cond, xs[2]), EinsumInnovation(Ht, state.Vt)), LAMBDA St :
    Let1(Inverse(St), LAMBDA A :
    Let1(VecAdd(mu_t_cond, EinsumMean(state.Vt, Ht, A, xi)), LAMBDA mu_t :
        [state |-> [mu_t |-> mu_t,
                    Vt |-> VecAdd(VecSub(state.Vt, EinsumVariance(state.Vt, Ht, A)),
                                  QzDiag(p, mu_t, state.t)),
                    t |-> state.t + 1],
         out |-> <<mu_t, None>>,
         inverted |-> St]))))))

\* the models and inputs the diagonal filter is called with
DiagModels ==
    [fz : {"id", "shear"}, q0 : {0, 1}, qt : {0, 1}, fx : {"tri", "lin"}, r : {0, 1},
     m : 1..MaxObsDim]

\* row k of sample_obs and of the covariates
ObsRow(m, k) == Vec([i \in 1..m |-> Rat((k + i) % 2)])

CovRow(n, k) == Vec([j \in 1..n |-> Rat((k + j + 1) % 2)])

DiagInit ==
    /\ \E n \in 1..MaxDim, T \in 1..MaxT, p \in DiagModels :
       \E Tc \in {T - 1, T, T + 1}, given \in BOOLEAN, vi \in {None, Some(Ones(n))},
          rh \in BOOLEAN :
          /\ p.q0 + p.qt <= 1
          /\ p.fx = "lin" => (given /\ p.m = 1)
          /\ ~given => Tc = T
          /\ diag_args =
                [params |-> p, init_state |-> Zeros(n),
                 sample_obs |-> Vec([k \in 1..T |-> ObsRow(ObsDim(p), k)]),
                 observations |-> IF given THEN Some(Vec([k \in 1..Tc |-> CovRow(n, k)]))
                                  ELSE None,
                 Vinit |-> vi, return_history |-> rh]
    /\ diag_pc = "call"
    /\ diag_state = None
    /\ diag_k = 0
    /\ mu_t_hist = None
    /\ diag_result = None
    /\ diag_steps = << >>

\* lines 44, 46-47: the carry the scan starts from
filter_init(a) ==
    [mu_t |-> a.init_state,
     Vt |-> IF a.Vinit = None THEN QzDiagNoTime(a.params, a.init_state)
            ELSE a.Vinit[1],
     t |-> 0]

\* lines 37-48 and the start of lax.scan(filter_step, state, xs) of line 75: the
\* scan refuses xs whose leaves differ in their number of rows before it runs
\* a step; None is a leaf-less tree
DiagCall ==
    /\ diag_pc = "call"
    /\ \E a \in {diag_args} :
          /\ diag_state' = filter_init(a)
          /\ IF a.observations # None /\ Len(a.observations[1]) # Len(a.sample_obs)
             THEN diag_pc' = "error"
             ELSE diag_pc' = "scan"
    /\ mu_t_hist' = <<<< >>, None>>
    /\ UNCHANGED <<diag_args, diag_k, diag_result, diag_steps>>

\* the scan handing every step the first covariate row
ScanRowFirstCovariate(a, k) ==
    <<a.sample_obs[k], IF a.observations = None THEN None ELSE Some(a.observations[1][1])>>

\* row k of xs = (sample_obs, (observations,)) of line 48, as the scan slices it
ScanRow(a, k) ==
    <<a.sample_obs[k], IF a.observations = None THEN None ELSE Some(a.observations[1][k])>>

\* one step of the scan: row diag_k + 1 of every leaf of xs goes to filter_step
DiagStep ==
    /\ diag_pc = "scan"
    /\ diag_k < Len(diag_args.sample_obs)
    /\ \E a \in {diag_args}, k \in {diag_k + 1} :
       \E xs \in {ScanRow(a, k)} :
       \E r \in {filter_step(a.params, diag_state, xs)} :
          /\ diag_state' = r.state
          /\ mu_t_hist' = <<Append(mu_t_hist[1], r.out[1]), None>>
          /\ diag_steps' = Append(diag_steps, [xt |-> xs[1], obs |-> xs[2],
                                               before |-> diag_state, after |-> r.state,
                                               inverted |-> r.inverted])
    /\ diag_k' = diag_k + 1
    /\ UNCHANGED <<diag_args, diag_pc, diag_result>>

\* the return statements giving the variance only along with the history
filter_result_variance_with_history(state, history, return_history) ==
    [final |-> <<state.mu_t, IF return_history THEN state.Vt ELSE None>>,
     hist |-> IF return_history THEN Some(history) ELSE None]

\* lines 77-80
filter_result(state, history, return_history) ==
    [final |-> <<state.mu_t, state.Vt>>,
     hist |-> IF return_history THEN Some(history) ELSE None]

\* lines 75-80
DiagReturn ==
    /\ diag_pc = "scan"
    /\ diag_k = Len(diag_args.sample_obs)
    /\ diag_result' = filter_result(diag_state, mu_t_hist, diag_args.return_history)
    /\ diag_pc' = "done"
    /\ UNCHANGED <<diag_args, diag_state, diag_k, mu_t_hist, diag_steps>>

\* line 75: the scan from row k on, as one function of the arguments
RECURSIVE scan_from(_, _, _, _)
scan_from(a, state, means, k) ==
    IF k > Len(a.sample_obs) THEN <<state, <<means, None>>>>
    ELSE Let1(filter_step(a.params, state, ScanRow(a, k)), LAMBDA r :
            scan_from(a, r.state, Append(means, r.out[1]), k + 1))

\* lines 16-80 for arguments the scan accepts
diag_filter(a) ==
    Let1(scan_from(a, filter_init(a), << >>, 1), LAMBDA r :
        filter_result(r[1], r[2], a.return_history))

DiagNext == DiagCall \/ DiagStep \/ DiagReturn

(***************************************************************************)
(* demos/linreg_kf: online regression by a Kalman filter, and the batch    *)
(* posterior.                                                              *)
(***************************************************************************)
VARIABLES
    lr_args,        \* the arguments X, y, R, mu0, Sigma0, F, Q
    lr_pc,          \* "call", "scan", "returned", "done"
    lr_state,       \* the carry (mu, Sigma, t) of the scan of kf_linreg
    lr_hist,        \* the stacked outputs (mu_hist, Sigma_hist) of the scan
    lr_online,      \* what kf_linreg returned
    lr_batch        \* what posterior_lreg returned

lr_vars == <<lr_args, lr_pc, lr_state, lr_hist, lr_online, lr_batch>>

\* line 45: C = lambda t: X[t][None, ...], the row t of X (from 0) as a matrix
C(X, t) == <<X[t + 1]>>

\* KalmanFilter.kalman_step with transition A, observation matrix Ct(t) = C(X, t)
\* and noises Q, R: predict, then update with the observation xt
kalman_step(A, X, Q, R, state0, xt) ==
    Let1(state0, LAMBDA state :
    Let3(MatVec(A, state.mu),
         MatAdd(MatMul(MatMul(A, state.Sigma), Transpose(A)), Q),
         C(X, state.t), LAMBDA mean_pred, cov_pred, Ct :
    Let1(MatAdd(MatMul(MatMul(Ct, cov_pred), Transpose(Ct)), <<<<R>>>>), LAMBDA S :
    Let1(MatMul(MatMul(cov_pred, Transpose(Ct)), Inverse(S)), LAMBDA K :
        [mu |-> VecAdd(mean_pred, MatVec(K, VecSub(<<xt>>, MatVec(Ct, mean_pred)))),
         Sigma |-> MatMul(MatSub(Eye(Len(state.mu)), MatMul(K, Ct)), cov_pred),
         t |-> state.t + 1]))))

\* a batch posterior that takes the observation noise to be 1
posterior_lreg_unit_noise(X, y, R, mu0, Sigma0) ==
    Let2(MatAdd(Inverse(Sigma0), MatMul(Transpose(X), X)), MatVec(Transpose(X), y),
         LAMBDA Sn_bayes_inv, Xty :
    Let1(Inverse(Sn_bayes_inv), LAMBDA Sn_bayes :
        [mn_bayes |-> MatVec(Sn_bayes, VecAdd(MatVec(Inverse(Sigma0), mu0), Xty)),
         Sn_bayes |-> Sn_bayes]))

\* lines 76-80
posterior_lreg(X, y, R, mu0, Sigma0) ==
    Let2(MatAdd(Inverse(Sigma0), MatScale(RDiv(Rat(1), R), MatMul(Transpose(X), X))),
         MatVec(MatScale(RDiv(Rat(1), R), Transpose(X)), y),
         LAMBDA Sn_bayes_inv, Xty :
    Let1(Inverse(Sn_bayes_inv), LAMBDA Sn_bayes :
        [mn_bayes |-> MatVec(Sn_bayes, VecAdd(MatVec(Inverse(Sigma0), mu0), Xty)),
         Sn_bayes |-> Sn_bayes]))

\* the rows of the designs and the observations the demo is run on
DesignRow(kind, dim, k) ==
    Vec([j \in 1..dim |->
            IF kind = "trend" THEN (IF j = 1 THEN Rat(1) ELSE Rat((k - 1) * (j - 1)))
            ELSE Rat((k + j) % 2)])

Target(kind, k) == IF kind = "ramp" THEN Rat(k) ELSE Rat(2 * (k % 2) - 1)

LinregInit ==
    /\ \E dim \in 1..MaxDim, n_obs \in 1..MaxT, xk \in {"trend", "parity"},
          yk \in {"ramp", "flip"}, R \in {1, 2}, m0 \in {0, 1}, s0 \in {1, 10},
          Fk \in {"id", "shear"}, q \in {0, 1} :
          lr_args =
             [X |-> Vec([k \in 1..n_obs |-> DesignRow(xk, dim, k)]),
              y |-> Vec([k \in 1..n_obs |-> Target(yk, k)]),
              R |-> Rat(R),
              mu0 |-> Vec([j \in 1..dim |-> Rat(m0)]),
              Sigma0 |-> MatScale(Rat(s0), Eye(dim)),
              F |-> IF Fk = "id" THEN Eye(dim) ELSE Shear(dim),
              Q |-> MatScale(Rat(q), Eye(dim))]
    /\ lr_pc = "call"
    /\ lr_state = None
    /\ lr_hist = None
    /\ lr_online = None
    /\ lr_batch = None

\* lines 44-48: kf_linreg up to the scan from the carry (mu0, Sigma0, 0)
LinregCall ==
    /\ lr_pc = "call"
    /\ lr_state' = [mu |-> lr_args.mu0, Sigma |-> lr_args.Sigma0, t |-> 0]
    /\ lr_hist' = [mu_hist |-> << >>, Sigma_hist |-> << >>]
    /\ lr_pc' = "scan"
    /\ UNCHANGED <<lr_args, lr_online, lr_batch>>

\* one step of scan(kf.kalman_step, ..., y)
LinregStep ==
    /\ lr_pc = "scan"
    /\ Len(lr_hist.mu_hist) < Len(lr_args.y)
    /\ \E a \in {lr_args} :
       \E st \in {kalman_step(a.F, a.X, a.Q, a.R, lr_state,
                              a.y[Len(lr_hist.mu_hist) + 1])} :
          /\ lr_state' = st
          /\ lr_hist' = [mu_hist |-> Append(lr_hist.mu_hist, st.mu),
                         Sigma_hist |-> Append(lr_hist.Sigma_hist, st.Sigma)]
    /\ UNCHANGED <<lr_args, lr_pc, lr_online, lr_batch>>

\* line 50
LinregReturn ==
    /\ lr_pc = "scan"
    /\ Len(lr_hist.mu_hist) = Len(lr_args.y)
    /\ lr_online' = lr_hist
    /\ lr_pc' = "returned"
    /\ UNCHANGED <<lr_args, lr_state, lr_hist, lr_batch>>

\* the call of posterior_lreg on the same data and prior
LinregPosterior ==
    /\ lr_pc = "returned"
    /\ \E a \in {lr_args} :
          lr_batch' = posterior_lreg(a.X, a.y, a.R, a.mu0, a.Sigma0)
    /\ lr_pc' = "done"
    /\ UNCHANGED <<lr_args, lr_state, lr_hist, lr_online>>

LinregNext == LinregCall \/ LinregStep \/ LinregReturn \/ LinregPosterior

(***************************************************************************)
(* sent/agents/eekf: the EEKF agent.  The class body defines update,       *)
(* predict and reset twice with the same text; the second definitions are  *)
(* the methods of the class.                                               *)
(***************************************************************************)
MaxCalls == 3

MaxBatch == 2

VARIABLES
    agent_ctor,     \* the arguments of the constructor
    agent,          \* the fields of the object, None before its construction
    agent_calls,    \* the calls made so far: method, arguments, (mu, Sigma) left
    agent_out       \* what the last call returned

agent_vars == <<agent_ctor, agent, agent_calls, agent_out>>

\* lines 64-67
reset(self) ==
    [self EXCEPT !.mu = self.prior_mean, !.Sigma = self.prior_cov]

\* lines 22-31: the constructor; the model holds fz, fx, Pt and Rt
AgentNew(a) ==
    reset([model |-> a.model, return_params |-> a.return_params,
           prior_mean |-> a.mu, prior_cov |-> a.P0,
           mu |-> None, Sigma |-> None])

\* lines 52-58: the call self.eekf.filter(self.mu, y, observations=X,
\* Vinit=self.prior_cov, return_params=self.return_params)
update_start(self) == [mean |-> self.mu, cov |-> self.prior_cov]

update_filter(self, X, y) ==
    EkfFilter(self.model, Rat(0), update_start(self).mean, update_start(self).cov, y,
              Vec([k \in 1..Len(X) |-> Some(X[k])]))

\* update also moving the prior covariance to the new posterior
update_moves_prior(self, X, y) ==
    Let1(update_filter(self, X, y), LAMBDA r :
        [self |-> [self EXCEPT !.mu = r.final.mean, !.Sigma = r.final.cov,
                               !.prior_cov = r.final.cov],
         params |-> Dict([key \in {"mean", "cov"} \cap self.return_params |->
                             IF key = "mean" THEN r.hist.mean ELSE r.hist.cov])])

\* lines 51-59: the object update leaves and the value it returns
update(self, X, y) ==
    Let1(update_filter(self, X, y), LAMBDA r :
        [self |-> [self EXCEPT !.mu = r.final.mean, !.Sigma = r.final.cov],
         params |-> Dict([key \in {"mean", "cov"} \cap self.return_params |->
                             IF key = "mean" THEN r.hist.mean ELSE r.hist.cov])])

\* lines 61-62: x @ self.mu.reshape((-1, 1)) for the rows x
predict(self, x) == Vec([k \in 1..Len(x) |-> <<Dot(x[k], self.mu)>>])

\* the models the agent is built on: Pt is a constant matrix q0 * I
AgentModels ==
    [fz : {"id", "shear"}, q0 : {0, 1}, qt : {0}, fx : {"lin"}, r : {1}, m : {1}]

\* the batches (X, y) of b rows an agent in dimension n is fed
Batch(n, b) ==
    [X |-> Vec([k \in 1..b |-> CovRow(n, k)]), y |-> Vec([k \in 1..b |-> <<Rat(k % 2)>>])]

AgentInit ==
    /\ \E n \in 1..MaxDim, p \in AgentModels, s0 \in {1, 2} :
          agent_ctor = [model |-> p, mu |-> Zeros(n), P0 |-> MatScale(Rat(s0), Eye(n)),
                        return_params |-> {"mean", "cov"}]
    /\ agent = None
    /\ agent_calls = << >>
    /\ agent_out = None

AgentDim == Len(agent_ctor.mu)

AgentLog(method, args, self) ==
    Append(agent_calls, [method |-> method, args |-> args,
                         mu |-> self.mu, Sigma |-> self.Sigma])

\* EEKF(fz, fx, Pt, Rt, mu, P0)
AgentConstruct ==
    /\ agent = None
    /\ \E self \in {AgentNew(agent_ctor)} :
          /\ agent' = Some(self)
          /\ agent_calls' = AgentLog("init", None, self)
    /\ agent_out' = None
    /\ UNCHANGED agent_ctor

AgentUpdate ==
    /\ agent # None
    /\ Len(agent_calls) <= MaxCalls
    /\ \E b \in 1..MaxBatch :
       \E B \in {Batch(AgentDim, b)} :
       \E r \in {update(agent[1], B.X, B.y)} :
          /\ agent' = Some(r.self)
          /\ agent_out' = Some(r.params)
          /\ agent_calls' = AgentLog("update", Some([X |-> B.X, y |-> B.y,
                                                     start |-> update_start(agent[1])]),
                                     r.self)
    /\ UNCHANGED agent_ctor

AgentPredict ==
    /\ agent # None
    /\ Len(agent_calls) <= MaxCalls
    /\ \E x \in {Batch(AgentDim, 1).X} :
          /\ agent_out' = Some(predict(agent[1], x))
          /\ agent_calls' = AgentLog("predict", Some(x), agent[1])
    /\ UNCHANGED <<agent_ctor, agent>>

AgentReset ==
    /\ agent # None
    /\ Len(agent_calls) <= MaxCalls
    /\ \E self \in {reset(agent[1])} :
          /\ agent' = Some(self)
          /\ agent_calls' = AgentLog("reset", None, self)
    /\ agent_out' = None
    /\ UNCHANGED agent_ctor

AgentNext == AgentConstruct \/ AgentUpdate \/ AgentPredict \/ AgentReset

(***************************************************************************)
(* sent/environments/sequential_data_env: SequentialDataEnvironment.       *)
(* An array is its shape and its elements in row-major order.              *)
(***************************************************************************)
MaxRows == 3

MaxBatchSize == 2

MaxWidth == 1

MaxEnvCalls == 2

VARIABLES
    env_ctor,       \* the arguments of the constructor
    env_pc,         \* "new", "ready", "error"
    envs,           \* two environments built from env_ctor, None before
    env_log,        \* per environment: the shuffle_data and reset calls made
    env_keys,       \* per environment: the uses made of generator keys
    env_out         \* what the last call returned: the value of get_data or reward on the
                    \* first environment, None from shuffle_data and reset

env_vars == <<env_ctor, env_pc, envs, env_log, env_keys, env_out>>

RECURSIVE Size(_)
Size(shape) == IF shape = << >> THEN 1 ELSE shape[1] * Size(Tail(shape))

\* a reshape that drops the elements that do not fit
ReshapeTruncating(a, shape) ==
    IF (\A d \in 1..Len(shape) : shape[d] >= 0) /\ Size(shape) <= Size(a.shape)
    THEN Some([shape |-> shape, data |-> SubSeq(a.data, 1, Size(shape))])
    ELSE None

\* jnp.reshape(a, shape): an error (None) unless the sizes agree
Reshape(a, shape) ==
    IF (\A d \in 1..Len(shape) : shape[d] >= 0) /\ Size(shape) = Size(a.shape)
    THEN Some([shape |-> shape, data |-> a.data])
    ELSE None

\* a[i], from 1
Sub(a, i) ==
    Let1(Size(Tail(a.shape)), LAMBDA w :
        [shape |-> Tail(a.shape), data |-> SubSeq(a.data, (i - 1) * w + 1, i * w)])

RECURSIVE TakeData(_, _, _)
TakeData(a, indices, k) ==
    IF k = 0 THEN << >> ELSE TakeData(a, indices, k - 1) \o Sub(a, indices[k]).data

\* a[indices]: the entries of a along its first axis, in the order of indices
Take(a, indices) ==
    [shape |-> <<Len(indices)>> \o Tail(a.shape),
     data |-> TakeData(a, indices, Len(indices))]

\* a generator key is the path of splits from a root seed
split(key) == <<Append(key, 0), Append(key, 1)>>

RECURSIVE KeyHash(_)
KeyHash(key) ==
    IF key = << >> THEN 7 ELSE (31 * KeyHash(SubSeq(key, 1, Len(key) - 1)) + Last(key) + 1) % 1009

Remove(items, i) == SubSeq(items, 1, i - 1) \o SubSeq(items, i + 1, Len(items))

RECURSIVE PermFrom(_, _)
PermFrom(h, items) ==
    IF items = << >> THEN << >>
    ELSE Let1((h % Len(items)) + 1, LAMBDA i :
            <<items[i]>> \o PermFrom(h \div Len(items), Remove(items, i)))

\* random.shuffle(key, jnp.arange(n)): a permutation that the key determines
shuffle(key, n) == PermFrom(KeyHash(key), Vec([i \in 1..n |-> i]))

\* lines 29-49; None when a line raises
EnvNew(a) ==
    IF a.train_batch_size = 0 \/ a.test_batch_size = 0 THEN None
    ELSE
    Let3(a.X_train.shape[1] \div a.train_batch_size,
         a.X_test.shape[1] \div a.test_batch_size,
         a.X_train.shape[2], LAMBDA ntrain_batches, ntest_batches, nfeatures :
    Let1(a.y_train.shape[2], LAMBDA out :
    Let2(<<Reshape(a.X_train, <<ntrain_batches, a.train_batch_size, nfeatures>>),
           Reshape(a.y_train, <<ntrain_batches, a.train_batch_size, out>>)>>,
         <<Reshape(a.X_test, <<ntest_batches, a.test_batch_size, nfeatures>>),
           Reshape(a.y_test, <<ntest_batches, a.test_batch_size, out>>)>>,
         LAMBDA train, test :
        IF train[1] = None \/ train[2] = None \/ test[1] = None \/ test[2] = None
        THEN None
        ELSE Some([X_train |-> train[1][1], y_train |-> train[2][1],
                   X_test |-> test[1][1], y_test |-> test[2][1],
                   loss_fn |-> IF a.classification THEN "classification_loss"
                               ELSE "regression_loss"]))))

\* shuffle_data permuting the features and leaving the targets in place
shuffle_data_features_only(self, key) ==
    Let2(split(key)[1], split(key)[2], LAMBDA train_key, test_key :
    Let2(shuffle(train_key, self.X_train.shape[1]),
         shuffle(test_key, self.X_test.shape[1]), LAMBDA train_indices, test_indices :
        [self EXCEPT !.X_train = Take(self.X_train, train_indices),
                     !.X_test = Take(self.X_test, test_indices)]))

\* shuffle_data with the test indices drawn from train_key as well
shuffle_data_one_key(self, key) ==
    Let2(split(key)[1], split(key)[2], LAMBDA train_key, test_key :
    Let2(shuffle(train_key, self.X_train.shape[1]),
         shuffle(train_key, self.X_test.shape[1]), LAMBDA train_indices, test_indices :
        [self EXCEPT !.X_train = Take(self.X_train, train_indices),
                     !.y_train = Take(self.y_train, train_indices),
                     !.X_test = Take(self.X_test, test_indices),
                     !.y_test = Take(self.y_test, test_indices)]))

\* lines 58-72
shuffle_data(self, key) ==
    Let2(split(key)[1], split(key)[2], LAMBDA train_key, test_key :
    Let2(shuffle(train_key, self.X_train.shape[1]),
         shuffle(test_key, self.X_test.shape[1]), LAMBDA train_indices, test_indices :
        [self EXCEPT !.X_train = Take(self.X_train, train_indices),
                     !.y_train = Take(self.y_train, train_indices),
                     !.X_test = Take(self.X_test, test_indices),
                     !.y_test = Take(self.y_test, test_indices)]))

\* the uses shuffle_data makes of keys
shuffle_data_keys(key) ==
    <<[use |-> "split", key |-> key],
      [use |-> "shuffle train", key |-> split(key)[1]],
      [use |-> "shuffle test", key |-> split(key)[2]]>>

\* reset setting the shapes with the two batch axes exchanged
env_reset_exchanges_batch_axes(self, key) ==
    Let2(self.X_train.shape, self.y_test.shape, LAMBDA xs, ys :
    Let1(shuffle_data(self, key), LAMBDA e :
        [e EXCEPT !.X_train = Reshape(e.X_train, <<xs[2], xs[1], xs[3]>>)[1],
                  !.y_train = Reshape(e.y_train, <<xs[2], xs[1], ys[3]>>)[1],
                  !.X_test = Reshape(e.X_test, <<ys[2], ys[1], xs[3]>>)[1],
                  !.y_test = Reshape(e.y_test, <<ys[2], ys[1], ys[3]>>)[1]]))

\* lines 74-90: the shapes are read before the shuffle and set again after it
env_reset(self, key) ==
    Let2(self.X_train.shape, self.y_test.shape, LAMBDA xs, ys :
    Let1(shuffle_data(self, key), LAMBDA e :
        [e EXCEPT !.X_train = Reshape(e.X_train, <<xs[1], xs[2], xs[3]>>)[1],
                  !.y_train = Reshape(e.y_train, <<xs[1], xs[2], ys[3]>>)[1],
                  !.X_test = Reshape(e.X_test, <<ys[1], ys[2], xs[3]>>)[1],
                  !.y_test = Reshape(e.y_test, <<ys[1], ys[2], ys[3]>>)[1]]))

\* lines 51-52, t from 0
get_data(self, t) ==
    <<Sub(self.X_train, t + 1), Sub(self.y_train, t + 1), self.X_test, self.y_test>>

\* lines 6-11: logprobs is a list of rows, targets a list of classes from 0;
\* nn.one_hot of a class out of range is a row of zeros
classification_loss(logprobs, targets) ==
    Let1(Vec([k \in 1..Len(logprobs) |->
                IF targets[k] \in 0..(Len(logprobs[k]) - 1)
                THEN logprobs[k][targets[k] + 1] ELSE Rat(0)]), LAMBDA nll :
        RNeg(RDiv(RSum(nll, Len(nll)), Rat(Len(nll)))))

\* lines 14-15
regression_loss(predictions, outputs) ==
    Let1(Vec([k \in 1..Len(predictions) |->
                RMul(RSub(predictions[k], outputs[k]), RSub(predictions[k], outputs[k]))]),
         LAMBDA sq : RDiv(RSum(sq, Len(sq)), Rat(Len(sq))))

\* lines 54-56
reward(self, y_pred, y_test) ==
    IF self.loss_fn = "classification_loss" THEN classification_loss(y_pred, y_test)
    ELSE regression_loss(y_pred, y_test)

\* the data the environment is built from: element c of row r of X is
\* 10 * r + c, and of y it is 100 + 10 * r + c
Table(rows, width, base) ==
    [shape |-> <<rows, width>>,
     data |-> Vec([k \in 1..(rows * width) |->
                    base + 10 * (((k - 1) \div width) + 1) + ((k - 1) % width) + 1])]

EnvKeys == {<<1>>, <<2>>}

EnvInit ==
    /\ \E ntrain \in 1..MaxRows, ntest \in 1..(MaxRows - 1),
          train_batch_size \in 0..MaxBatchSize, test_batch_size \in 1..MaxBatchSize,
          width \in 0..MaxWidth, classification \in BOOLEAN :
          /\ width = 0 => (ntest = 1 /\ test_batch_size = 1 /\ ~classification)
          /\ env_ctor =
                [X_train |-> Table(ntrain, width, 0),
                 y_train |-> Table(ntrain, width, 100),
                 X_test |-> Table(ntest, width, 0),
                 y_test |-> Table(ntest, width, 100),
                 train_batch_size |-> train_batch_size,
                 test_batch_size |-> test_batch_size,
                 classification |-> classification]
    /\ env_pc = "new"
    /\ envs = None
    /\ env_log = <<<< >>, << >>>>
    /\ env_keys = <<<< >>, << >>>>
    /\ env_out = None

\* SequentialDataEnvironment(...), twice with the same arguments
EnvConstruct ==
    /\ env_pc = "new"
    /\ \E e \in {EnvNew(env_ctor)} :
          IF e = None THEN env_pc' = "error" /\ envs' = None
          ELSE env_pc' = "ready" /\ envs' = Some(<<e[1], e[1]>>)
    /\ UNCHANGED <<env_ctor, env_log, env_keys, env_out>>

\* environment i runs shuffle_data(key) or reset(key)
EnvCall(i, method, key) ==
    \E e \in {IF method = "reset" THEN env_reset(envs[1][i], key)
              ELSE shuffle_data(envs[1][i], key)} :
        /\ envs' = Some([envs[1] EXCEPT ![i] = e])
        /\ env_log' = [env_log EXCEPT ![i] = Append(@, [method |-> method, key |-> key,
                                                        before |-> envs[1][i],
                                                        after |-> e])]
        /\ env_keys' = [env_keys EXCEPT ![i] = @ \o shuffle_data_keys(key)]
        /\ env_out' = None

EnvShuffle ==
    /\ env_pc = "ready"
    /\ Len(env_log[1]) < MaxEnvCalls
    /\ \E key \in EnvKeys : EnvCall(1, "shuffle_data", key)
    /\ UNCHANGED <<env_ctor, env_pc>>

EnvReset ==
    /\ env_pc = "ready"
    /\ Len(env_log[1]) < MaxEnvCalls
    /\ \E key \in EnvKeys : EnvCall(1, "reset", key)
    /\ UNCHANGED <<env_ctor, env_pc>>

\* the second environment is given the next call the first one was given
EnvReplay ==
    /\ env_pc = "ready"
    /\ Len(env_log[2]) < Len(env_log[1])
    /\ \E c \in {env_log[1][Len(env_log[2]) + 1]} : EnvCall(2, c.method, c.key)
    /\ UNCHANGED <<env_ctor, env_pc>>

EnvGetData ==
    /\ env_pc = "ready"
    /\ \E t \in 0..(envs[1][1].X_train.shape[1] - 1) :
          env_out' = Some([method |-> "get_data", t |-> t,
                           value |-> get_data(envs[1][1], t)])
    /\ UNCHANGED <<env_ctor, env_pc, envs, env_log, env_keys>>

EnvReward ==
    /\ env_pc = "ready"
    /\ \E v \in {IF envs[1][1].loss_fn = "classification_loss"
                 THEN reward(envs[1][1], <<<<Rat(-1), Rat(-2)>>, <<Rat(-3), Rat(-1)>>>>,
                             <<0, 1>>)
                 ELSE reward(envs[1][1], <<Rat(1), Rat(3)>>, <<Rat(1), Rat(0)>>)} :
          env_out' = Some([method |-> "reward", t |-> 0, value |-> v])
    /\ UNCHANGED <<env_ctor, env_pc, envs, env_log, env_keys>>

EnvNext ==
    EnvConstruct \/ EnvShuffle \/ EnvReset \/ EnvReplay \/ EnvGetData \/ EnvReward

(***************************************************************************)
(* demos/hmm_casino_numpy: find_dishonest_intervals.  Timesteps count from *)
(* 0 as in the source: z_hist[t] of the source is z_hist[t + 1] here.      *)
(***************************************************************************)
MaxLen == 5

VARIABLES
    z_hist,         \* the argument: a sequence over the states 0 and 1
    fdi_pc,         \* "loop", "done"
    fdi_t,          \* the loop variable t
    fdi_state       \* the locals x_init and spans

fdi_vars == <<z_hist, fdi_pc, fdi_t, fdi_state>>

\* the body of the loop, lines 37-41, for one value of t
fdi_body_keeps_x_init(z, t, st) ==
    IF z[t + 2] = 0 /\ z[t + 1] = 1
    THEN [st EXCEPT !.spans = Append(st.spans, <<st.x_init, t>>)]
    ELSE st

fdi_body(z, t, st) ==
    IF z[t + 2] = 0 /\ z[t + 1] = 1
    THEN [st EXCEPT !.spans = Append(st.spans, <<st.x_init, t>>)]
    ELSE IF z[t + 2] = 1 /\ z[t + 1] = 0
         THEN [st EXCEPT !.x_init = t + 1]
         ELSE st

RECURSIVE BitSeqs(_)
BitSeqs(n) ==
    IF n = 0 THEN {<< >>}
    ELSE {Append(z, b) : z \in BitSeqs(n - 1), b \in {0, 1}}

\* lines 34-35
FdiInit ==
    /\ \E n \in 0..MaxLen : z_hist \in BitSeqs(n)
    /\ fdi_pc = "loop"
    /\ fdi_t = 0
    /\ fdi_state = [x_init |-> 0, spans |-> << >>]

\* one iteration of the loop of line 36 over z_hist[:-1]
FdiIterate ==
    /\ fdi_pc = "loop"
    /\ fdi_t < Len(z_hist) - 1
    /\ fdi_state' = fdi_body(z_hist, fdi_t, fdi_state)
    /\ fdi_t' = fdi_t + 1
    /\ UNCHANGED <<z_hist, fdi_pc>>

\* line 42
FdiReturn ==
    /\ fdi_pc = "loop"
    /\ fdi_t >= Len(z_hist) - 1
    /\ fdi_pc' = "done"
    /\ UNCHANGED <<z_hist, fdi_t, fdi_state>>

FdiNext == FdiIterate \/ FdiReturn

(***************************************************************************)
(* The filtering demos' use of generator keys: bootstrap_filter.main,      *)
(* pendulum_1d.main and ekf_mlp_anim.main, reduced to the statements that  *)
(* make, split or hand out a key.                                          *)
(***************************************************************************)
n_obs == 200

VARIABLES
    demo,           \* the demo whose main is running
    demo_pc,        \* index of the next key statement of that main
    demo_keys,      \* the key bound to each local name, << >> when unbound
    demo_split,     \* the keys that have been split so far
    demo_consumed,  \* the keys handed to random consumers so far
    demo_frame      \* ekf_mlp_anim: the next frame FuncAnimation draws

demo_vars == <<demo, demo_pc, demo_keys, demo_split, demo_consumed, demo_frame>>

PRNGKey(seed) == <<seed>>

\* random.split(key, num)
split_num(key, num) == [i \in 1..num |-> Append(key, i - 1)]

Stmt(op, line, src, dst, by, n) ==
    [op |-> op, line |-> line, src |-> src, dst |-> dst, by |-> by, n |-> n]

DemoNames ==
    {"key", "key_samples", "key_pf", "key_noisy", "key_values", "key_sample_obs",
     "key_weights"}

\* the key statements of each main, in program order
DemoMain(name) ==
    IF name = "bootstrap_filter" THEN
        <<Stmt("PRNGKey", 50, "", <<"key">>, "", 314),
          Stmt("consume", 52, "key", << >>, "model.sample", 0),
          Stmt("consume", 57, "key", << >>, "filter", 0)>>
    ELSE IF name = "pendulum_1d" THEN
        <<Stmt("PRNGKey", 51, "", <<"key">>, "", 3141),
          Stmt("split", 52, "key", <<"key_samples", "key_pf", "key_noisy">>, "", 3),
          Stmt("consume", 54, "key", << >>, "model.sample", 0),
          Stmt("split", 57, "key_noisy", <<"key_noisy", "key_values">>, "", 2),
          Stmt("consume", 59, "key_noisy", << >>, "random.bernoulli", 0),
          Stmt("consume", 60, "key_values", << >>, "random.uniform", 0),
          Stmt("consume", 79, "key_pf", << >>, "b_lib.filter", 0),
          Stmt("consume", 92, "key_pf", << >>, "b_lib.filter", 0)>>
    ELSE
        <<Stmt("PRNGKey", 32, "", <<"key">>, "", 314),
          Stmt("split", 33, "key", <<"key_sample_obs", "key_weights">>, "", 2),
          Stmt("consume", 36, "key_sample_obs", << >>, "demo.sample_observations", 0),
          Stmt("consume", 42, "key_weights", << >>, "normal", 0),
          Stmt("animate", 60, "key", << >>, "multivariate_normal", n_obs)>>

DemoInit ==
    /\ demo \in {"bootstrap_filter", "pendulum_1d", "ekf_mlp_anim"}
    /\ demo_pc = 1
    /\ demo_keys = [name \in DemoNames |-> << >>]
    /\ demo_split = {}
    /\ demo_consumed = {}
    /\ demo_frame = 0

DemoAt(op) ==
    /\ demo_pc \in 1..Len(DemoMain(demo))
    /\ DemoMain(demo)[demo_pc].op = op

\* handing key to a random consumer
Consumed(st, key, frame) ==
    [key |-> key, by |-> st.by, line |-> st.line, frame |-> frame,
     after_split |-> key \in demo_split]

DemoPRNGKey ==
    /\ DemoAt("PRNGKey")
    /\ \E st \in {DemoMain(demo)[demo_pc]} :
        demo_keys' = [demo_keys EXCEPT ![st.dst[1]] = PRNGKey(st.n)]
    /\ demo_pc' = demo_pc + 1
    /\ UNCHANGED <<demo, demo_split, demo_consumed, demo_frame>>

DemoSplit ==
    /\ DemoAt("split")
    /\ \E st \in {DemoMain(demo)[demo_pc]} :
        \E children \in {split_num(demo_keys[st.src], st.n)} :
            /\ demo_keys' = [name \in DemoNames |->
                                IF \E i \in 1..st.n : st.dst[i] = name
                                THEN children[CHOOSE i \in 1..st.n : st.dst[i] = name]
                                ELSE demo_keys[name]]
            /\ demo_split' = demo_split \cup {demo_keys[st.src]}
    /\ demo_pc' = demo_pc + 1
    /\ UNCHANGED <<demo, demo_consumed, demo_frame>>

DemoConsume ==
    /\ DemoAt("consume")
    /\ \E st \in {DemoMain(demo)[demo_pc]} :
        demo_consumed' = demo_consumed \cup {Consumed(st, demo_keys[st.src], 0)}
    /\ demo_pc' = demo_pc + 1
    /\ UNCHANGED <<demo, demo_keys, demo_split, demo_frame>>

\* FuncAnimation calls func(i) for i = 0 .. frames - 1
DemoFrame ==
    /\ DemoAt("animate")
    /\ \E st \in {DemoMain(demo)[demo_pc]} :
        /\ demo_consumed' =
                demo_consumed \cup {Consumed(st, demo_keys[st.src], demo_frame)}
        /\ demo_pc' = IF demo_frame + 1 = st.n THEN demo_pc + 1 ELSE demo_pc
    /\ demo_frame' = demo_frame + 1
    /\ UNCHANGED <<demo, demo_keys, demo_split>>

DemoNext == DemoPRNGKey \/ DemoSplit \/ DemoConsume \/ DemoFrame

(***************************************************************************)
(* Specifications: one per component, the other components idle.           *)
(***************************************************************************)
vars == <<smooth_vars, diag_vars, lr_vars, agent_vars, env_vars, fdi_vars, demo_vars>>

SmoothIdle ==
    /\ smooth_args = None /\ smooth_pc = "idle" /\ hist_filter = None
    /\ kf_hist_mean = << >> /\ kf_hist_cov = << >> /\ smooth_state = None
    /\ scan_i = 0 /\ hist_smooth = None /\ hist = None /\ steps = << >>

DiagIdle ==
    /\ diag_args = None /\ diag_pc = "idle" /\ diag_state = None /\ diag_k = 0
    /\ mu_t_hist = None /\ diag_result = None /\ diag_steps = << >>

LinregIdle ==
    /\ lr_args = None /\ lr_pc = "idle" /\ lr_state = None /\ lr_hist = None
    /\ lr_online = None /\ lr_batch = None

AgentIdle ==
    /\ agent_ctor = None /\ agent = None /\ agent_calls = << >> /\ agent_out = None

EnvIdle ==
    /\ env_ctor = None /\ env_pc = "idle" /\ envs = None /\ env_log = None
    /\ env_keys = None /\ env_out = None

FdiIdle ==
    z_hist = None /\ fdi_pc = "idle" /\ fdi_t = 0 /\ fdi_state = None

DemoIdle ==
    /\ demo = None /\ demo_pc = 0 /\ demo_keys = None /\ demo_split = {}
    /\ demo_consumed = {} /\ demo_frame = 0

SpecSmoothInit == SmoothInit /\ DiagIdle /\ LinregIdle /\ AgentIdle /\ EnvIdle
    /\ FdiIdle /\ DemoIdle

SpecSmoothNext ==
    \/ SmoothCall /\ UNCHANGED <<diag_vars, lr_vars, agent_vars, env_vars, fdi_vars,
                    demo_vars>>
    \/ SmoothStep /\ UNCHANGED <<diag_vars, lr_vars, agent_vars, env_vars, fdi_vars,
                    demo_vars>>
    \/ SmoothReturn /\ UNCHANGED <<diag_vars, lr_vars, agent_vars, env_vars, fdi_vars,
                    demo_vars>>

SpecSmooth == SpecSmoothInit /\ [][SpecSmoothNext]_vars

SpecDiagInit == DiagInit /\ SmoothIdle /\ LinregIdle /\ AgentIdle /\ EnvIdle
    /\ FdiIdle /\ DemoIdle

SpecDiagNext ==
    \/ DiagCall /\ UNCHANGED <<smooth_vars, lr_vars, agent_vars, env_vars, fdi_vars,
                    demo_vars>>
    \/ DiagStep /\ UNCHANGED <<smooth_vars, lr_vars, agent_vars, env_vars, fdi_vars,
                    demo_vars>>
    \/ DiagReturn /\ UNCHANGED <<smooth_vars, lr_vars, agent_vars, env_vars, fdi_vars,
                    demo_vars>>

SpecDiag == SpecDiagInit /\ [][SpecDiagNext]_vars

SpecLinregInit == LinregInit /\ SmoothIdle /\ DiagIdle /\ AgentIdle /\ EnvIdle
    /\ FdiIdle /\ DemoIdle

SpecLinregNext ==
    \/ LinregCall /\ UNCHANGED <<smooth_vars, diag_vars, agent_vars, env_vars, fdi_vars,
                    demo_vars>>
    \/ LinregStep /\ UNCHANGED <<smooth_vars, diag_vars, agent_vars, env_vars, fdi_vars,
                    demo_vars>>
    \/ LinregReturn /\ UNCHANGED <<smooth_vars, diag_vars, agent_vars, env_vars, fdi_vars,
                    demo_vars>>
    \/ LinregPosterior /\ UNCHANGED <<smooth_vars, diag_vars, agent_vars, env_vars, fdi_vars,
                    demo_vars>>

SpecLinreg == SpecLinregInit /\ [][SpecLinregNext]_vars

SpecAgentInit == AgentInit /\ SmoothIdle /\ DiagIdle /\ LinregIdle /\ EnvIdle
    /\ FdiIdle /\ DemoIdle

SpecAgentNext ==
    \/ AgentConstruct /\ UNCHANGED <<smooth_vars, diag_vars, lr_vars, env_vars, fdi_vars,
                    demo_vars>>
    \/ AgentUpdate /\ UNCHANGED <<smooth_vars, diag_vars, lr_vars, env_vars, fdi_vars,
                    demo_vars>>
    \/ AgentPredict /\ UNCHANGED <<smooth_vars, diag_vars, lr_vars, env_vars, fdi_vars,
                    demo_vars>>
    \/ AgentReset /\ UNCHANGED <<smooth_vars, diag_vars, lr_vars, env_vars, fdi_vars,
                    demo_vars>>

SpecAgent == SpecAgentInit /\ [][SpecAgentNext]_vars

SpecEnvInit == EnvInit /\ SmoothIdle /\ DiagIdle /\ LinregIdle /\ AgentIdle
    /\ FdiIdle /\ DemoIdle

SpecEnvNext ==
    \/ EnvConstruct /\ UNCHANGED <<smooth_vars, diag_vars, lr_vars, agent_vars, fdi_vars,
                    demo_vars>>
    \/ EnvShuffle /\ UNCHANGED <<smooth_vars, diag_vars, lr_vars, agent_vars, fdi_vars,
                    demo_vars>>
    \/ EnvReset /\ UNCHANGED <<smooth_vars, diag_vars, lr_vars, agent_vars, fdi_vars,
                    demo_vars>>
    \/ EnvReplay /\ UNCHANGED <<smooth_vars, diag_vars, lr_vars, agent_vars, fdi_vars,
                    demo_vars>>
    \/ EnvGetData /\ UNCHANGED <<smooth_vars, diag_vars, lr_vars, agent_vars, fdi_vars,
                    demo_vars>>
    \/ EnvReward /\ UNCHANGED <<smooth_vars, diag_vars, lr_vars, agent_vars, fdi_vars,
                    demo_vars>>

SpecEnv == SpecEnvInit /\ [][SpecEnvNext]_vars

SpecFdiInit ==
    FdiInit /\ SmoothIdle /\ DiagIdle /\ LinregIdle /\ AgentIdle /\ EnvIdle
    /\ DemoIdle

SpecFdiNext ==
    \/ FdiIterate /\ UNCHANGED <<smooth_vars, diag_vars, lr_vars, agent_vars, env_vars,
                    demo_vars>>
    \/ FdiReturn /\ UNCHANGED <<smooth_vars, diag_vars, lr_vars, agent_vars, env_vars,
                    demo_vars>>

SpecFdi == SpecFdiInit /\ [][SpecFdiNext]_vars

SpecDemosInit ==
    DemoInit /\ SmoothIdle /\ DiagIdle /\ LinregIdle /\ AgentIdle /\ EnvIdle
    /\ FdiIdle

SpecDemosNext ==
    \/ DemoPRNGKey /\ UNCHANGED <<smooth_vars, diag_vars, lr_vars, agent_vars, env_vars,
                                  fdi_vars>>
    \/ DemoSplit /\ UNCHANGED <<smooth_vars, diag_vars, lr_vars, agent_vars, env_vars,
                                fdi_vars>>
    \/ DemoConsume /\ UNCHANGED <<smooth_vars, diag_vars, lr_vars, agent_vars, env_vars,
                                  fdi_vars>>
    \/ DemoFrame /\ UNCHANGED <<smooth_vars, diag_vars, lr_vars, agent_vars, env_vars,
                                fdi_vars>>

SpecDemos == SpecDemosInit /\ [][SpecDemosNext]_vars

(***************************************************************************)
(* Claims about the smoother.                                              *)
(***************************************************************************)
SmoothT == Len(smooth_args.observations)

\* every number of the step record s is finite and in range
StepExact(s) ==
    /\ VecFinite(s.mean_next) /\ MatFinite(s.cov_next)
    /\ VecFinite(s.mean_kf) /\ MatFinite(s.cov_kf)
    /\ MatFinite(s.kalman_gain)
    /\ VecFinite(s.mean_prev) /\ MatFinite(s.cov_prev)

\* the Jacobian and the predicted covariances of the step record s
StepF(s) == Dfz(smooth_args.params, s.mean_kf)

StepPpred(s) ==
    MatAdd(MatMul(MatMul(StepF(s), s.cov_kf), Transpose(StepF(s))),
           Qz(smooth_args.params, s.mean_kf, s.t))

StepPeps(s) == MatAdd(StepPpred(s), MatScale(smooth_args.eps, Eye(Len(s.mean_kf))))

\* C1: when smooth returns with return_params naming mean and cov, the
\* smoothed history has an entry for the final timestep T-1 and that entry is
\* the filter's mean and covariance at T-1.
C1_FinalEntryIsFilterEntry ==
    (smooth_pc = "done" /\ smooth_args.return_params = Some({"mean", "cov"})) =>
        /\ Len(hist.smooth.mean) = SmoothT
        /\ Len(hist.smooth.cov) = SmoothT
        /\ hist.smooth.mean[SmoothT] = hist_filter.mean[SmoothT]
        /\ hist.smooth.cov[SmoothT] = hist_filter.cov[SmoothT]

\* C2: in every backward step the gain G satisfies
\* G * (P_pred + eps * I) = cov_kf * F^T, in every state dimension.
C2_GainSolvesRegularisedSystem ==
    \A k \in 1..Len(steps) :
        Let1(steps[k], LAMBDA s :
            (StepExact(s) /\ ~Singular(StepPeps(s))) =>
                MatMul(s.kalman_gain, StepPeps(s)) = MatMul(s.cov_kf, Transpose(StepF(s))))

\* the same identity in state dimension 1, where the factors commute
C2_GainSolvesRegularisedSystemDim1 ==
    \A k \in 1..Len(steps) :
        Let1(steps[k], LAMBDA s :
            (StepExact(s) /\ ~Singular(StepPeps(s)) /\ Len(s.mean_kf) = 1) =>
                MatMul(s.kalman_gain, StepPeps(s)) = MatMul(s.cov_kf, Transpose(StepF(s))))

\* C3: each backward step computes, with G the gain of the step,
\* mean_prev = mean_kf + G * (mean_next - fz(mean_kf)) and
\* cov_prev = cov_kf + G * (cov_next - P_pred) * G^T, P_pred without eps;
\* (mean_next, cov_next) is the output of the step for the next entry, and
\* the filter's final estimate in the first backward step.
C3_StepUpdatesFromNextSmoothed ==
    \A k \in 1..Len(steps) :
        Let1(steps[k], LAMBDA s :
            /\ s.mean_kf = hist_filter.mean[s.entry + 1]
            /\ s.cov_kf = hist_filter.cov[s.entry + 1]
            /\ IF k = 1
               THEN /\ s.entry + 1 = SmoothT - 1
                    /\ s.mean_next = hist_filter.mean[SmoothT]
                    /\ s.cov_next = hist_filter.cov[SmoothT]
               ELSE /\ steps[k - 1].entry = s.entry + 1
                    /\ s.mean_next = steps[k - 1].mean_prev
                    /\ s.cov_next = steps[k - 1].cov_prev
            /\ s.mean_prev =
                   VecAdd(s.mean_kf,
                          MatVec(s.kalman_gain,
                                 VecSub(s.mean_next, fz(smooth_args.params, s.mean_kf))))
            /\ s.cov_prev =
                   MatAdd(s.cov_kf,
                          MatMul(MatMul(s.kalman_gain, MatSub(s.cov_next, StepPpred(s))),
                                 Transpose(s.kalman_gain))))

\* C3 witness: two chained steps in dimension 2 with exact numbers, a process
\* noise and a regularisation that are not zero, and a gain that is not zero
C3_Witness ==
    /\ Len(steps) >= 2
    /\ Len(steps[2].mean_kf) = 2
    /\ StepExact(steps[1]) /\ StepExact(steps[2])
    /\ smooth_args.eps # Rat(0)
    /\ smooth_args.params.q0 + smooth_args.params.qt > 0
    /\ steps[2].kalman_gain # MatScale(Rat(0), Eye(2))
    /\ steps[2].mean_prev # steps[2].mean_kf

\* C7: smooth succeeds and its smoothed history holds exactly the fields of
\* {mean, cov} that return_params names, and both when return_params is left
\* at its default.
C7_SmoothedFieldsAreRequested ==
    smooth_pc \in {"done", "error"} =>
        /\ smooth_pc = "done"
        /\ DOMAIN hist.smooth =
               IF smooth_args.return_params = None THEN {"mean", "cov"}
               ELSE {"mean", "cov"} \cap smooth_args.return_params[1]

\* the part of C7 about a requested subset
C7_RequestedSubsetOnly ==
    (smooth_pc \in {"done", "error"} /\ smooth_args.return_params # None) =>
        /\ smooth_pc = "done"
        /\ DOMAIN hist.smooth = {"mean", "cov"} \cap smooth_args.return_params[1]

\* C17: the backward pass of smooth processes the filter entries in strictly
\* decreasing index order, one step per processed entry, and then stops; the
\* time index handed to Qz in the step for filter entry i is i; the pass
\* starts from filter entry T-1 and its last step is for entry 0.
C17_BackwardPassOrder ==
    smooth_pc \in {"scan", "done"} =>
        /\ Len(hist_filter.mean) = SmoothT
        /\ Len(steps) <= SmoothT - 1
        /\ Len(steps) >= 1 =>
              /\ steps[1].mean_next = hist_filter.mean[SmoothT]
              /\ steps[1].cov_next = hist_filter.cov[SmoothT]
        /\ \A k \in 1..Len(steps) :
              /\ steps[k].entry = SmoothT - 1 - k
              /\ steps[k].mean_kf = hist_filter.mean[steps[k].entry + 1]
              /\ steps[k].cov_kf = hist_filter.cov[steps[k].entry + 1]
              /\ steps[k].t = steps[k].entry
              /\ k > 1 => /\ steps[k].entry < steps[k - 1].entry
                          /\ steps[k].mean_next = steps[k - 1].mean_prev
                          /\ steps[k].cov_next = steps[k - 1].cov_prev
        /\ smooth_pc = "done" =>
              /\ Len(steps) = SmoothT - 1
              /\ SmoothT >= 2 => steps[Len(steps)].entry = 0

\* a pass over three filter entries has returned: its two steps were for
\* entries 1 and 0
C17_Witness ==
    /\ smooth_pc = "done"
    /\ SmoothT = 3
    /\ Len(steps) = 2
    /\ steps[1].entry = 1 /\ steps[2].entry = 0
    /\ smooth_args.params.qt = 1

\* C18: for a filter history of T entries the 'smooth' history that smooth
\* returns has exactly T-1 entries (none when T = 1); entry i is the smoothed
\* estimate computed from filter entry i, for i = 0..T-2, stored in forward
\* time order; the 'filter' entry of the result is the filter history when
\* return_filter_history is true and None otherwise.
C18_SmoothHistoryLayout ==
    smooth_pc = "done" =>
        /\ Len(hist_filter.mean) = SmoothT
        /\ Len(steps) = SmoothT - 1
        /\ \A key \in DOMAIN hist.smooth :
              /\ Len(hist.smooth[key]) = SmoothT - 1
              /\ \A i \in 0..(SmoothT - 2) :
                    Let1(steps[SmoothT - 1 - i], LAMBDA s :
                        /\ s.entry = i
                        /\ s.mean_kf = hist_filter.mean[i + 1]
                        /\ s.cov_kf = hist_filter.cov[i + 1]
                        /\ hist.smooth[key][i + 1] =
                              IF key = "mean" THEN s.mean_prev ELSE s.cov_prev)
        /\ hist.filter = IF smooth_args.return_filter_history
                         THEN Some(hist_filter) ELSE None

\* smooth returned the means of a history of three filter entries whose
\* two smoothed means differ from each other and from the filtered ones
C18_Witness ==
    /\ smooth_pc = "done"
    /\ SmoothT = 3
    /\ "mean" \in DOMAIN hist.smooth
    /\ Len(hist.smooth.mean) = 2
    /\ VecFinite(hist.smooth.mean[1]) /\ VecFinite(hist.smooth.mean[2])
    /\ hist.smooth.mean[1] # hist.smooth.mean[2]
    /\ hist.smooth.mean[1] # hist_filter.mean[1]
    /\ hist_filter.mean[1] # hist_filter.mean[2]
    /\ hist.filter # None

\* smooth returned for a single observation: no smoothed entry
C18_WitnessSingleEntry ==
    /\ smooth_pc = "done"
    /\ SmoothT = 1
    /\ "mean" \in DOMAIN hist.smooth
    /\ hist.smooth.mean = << >>
    /\ hist.filter = None

(***************************************************************************)
(* Claims about the diagonal filter.                                       *)
(***************************************************************************)
DiagT == Len(diag_args.sample_obs)

DiagMismatch ==
    diag_args.observations # None /\ Len(diag_args.observations[1]) # DiagT

\* the returned final state and history hold no undefined value
DiagResultDefined ==
    /\ ~VecHasNaN(diag_result.final[1])
    /\ ~VecHasNaN(diag_result.final[2])
    /\ diag_result.hist # None =>
          \A k \in 1..Len(diag_result.hist[1][1]) : ~VecHasNaN(diag_result.hist[1][1][k])

\* C4: a call of the diagonal filter that inverted a singular innovation
\* covariance in some step does not return: whenever the filter has returned,
\* no step inverted a singular matrix and the returned final state and history
\* hold no undefined value.
C4_SingularInversionFails ==
    diag_pc = "done" =>
        /\ \A k \in 1..Len(diag_steps) : ~Singular(diag_steps[k].inverted)
        /\ DiagResultDefined

\* C5: every step k the scan has run was given row k of sample_obs and row k
\* of the covariates (nothing when the call has none); a call whose covariates
\* differ in length from sample_obs runs no step and returns nothing; and a
\* call without covariates is not refused.
C5_CovariatesPairedOrRefused ==
    diag_pc # "idle" =>
        /\ \A k \in 1..Len(diag_steps) :
              /\ diag_steps[k].xt = diag_args.sample_obs[k]
              /\ diag_steps[k].obs = IF diag_args.observations = None THEN None
                                     ELSE Some(diag_args.observations[1][k])
              /\ diag_steps[k].before.t = k - 1
        /\ DiagMismatch =>
              /\ diag_pc \in {"call", "error"}
              /\ diag_steps = << >>
              /\ diag_result = None
        /\ ~DiagMismatch => diag_pc # "error"
        /\ diag_pc = "done" => Len(diag_steps) = DiagT

\* a refused call with mismatched covariates, and a finished call of two or
\* more steps with covariates whose rows differ
C5_WitnessRefused == diag_pc = "error" /\ DiagMismatch

C5_WitnessPaired ==
    /\ diag_pc = "done"
    /\ diag_args.observations # None
    /\ DiagT >= 2
    /\ diag_args.observations[1][1] # diag_args.observations[1][2]
    /\ diag_args.params.fx = "lin"

C5_WitnessNoCovariates == diag_pc = "done" /\ diag_args.observations = None

\* C6: with return_history = True the returned history holds T filtered means
\* and T filtered variance vectors, entry k being the state step k left.
C6_HistoryOfMeansAndCovariances ==
    (diag_pc = "done" /\ diag_args.return_history) =>
        /\ diag_result.hist # None
        /\ Len(diag_result.hist[1][1]) = DiagT
        /\ Len(diag_result.hist[1][2]) = DiagT
        /\ \A k \in 1..DiagT :
              /\ diag_result.hist[1][1][k] = diag_steps[k].after.mu_t
              /\ diag_result.hist[1][2][k] = diag_steps[k].after.Vt

\* what the code does return: the T filtered means, and nothing for the variances
C6_HistoryOfMeansOnly ==
    (diag_pc = "done" /\ diag_args.return_history) =>
        /\ diag_result.hist # None
        /\ Len(diag_result.hist[1][1]) = DiagT
        /\ \A k \in 1..DiagT : diag_result.hist[1][1][k] = diag_steps[k].after.mu_t
        /\ diag_result.hist[1][2] = None

\* the quantities of step k of the scan in matrix form: the predicted mean
\* fz(mu), H the Jacobian of fx there, D = diag(Vt), the innovation xi, and
\* A = (Rt + H D H^T)^-1
StepCond(k) == fz(diag_args.params, diag_steps[k].before.mu_t)

StepH(k) == Dfx(diag_args.params, StepCond(k), diag_steps[k].obs)

StepD(k) == Diag(diag_steps[k].before.Vt)

StepXi(k) == VecSub(diag_steps[k].xt, fx(diag_args.params, StepCond(k), diag_steps[k].obs))

StepS(k) ==
    MatAdd(Rx(diag_args.params, StepCond(k), diag_steps[k].obs),
           MatMul(MatMul(StepH(k), StepD(k)), Transpose(StepH(k))))

StepA(k) == Inverse(StepS(k))

DiagonalOf(M) == Vec([s \in 1..Len(M) |-> M[s][s]])

\* the updated mean of step k in matrix form
StepMean(k) ==
    VecAdd(StepCond(k),
           MatVec(MatMul(MatMul(StepD(k), Transpose(StepH(k))), StepA(k)), StepXi(k)))

\* both computations of step k stayed within the range of the numbers
StepInRange(k) ==
    /\ VecFinite(diag_steps[k].after.mu_t) /\ MatFinite(diag_steps[k].inverted)
    /\ VecFinite(StepMean(k)) /\ MatFinite(StepS(k))

\* C19: in a step of the diagonal filter the updated mean is
\* fz(mu) + D H^T (Rt + H D H^T)^-1 (xt - fx(fz(mu))), and the only matrix
\* inverted has the size of the observation.
C19_MeanIsKalmanUpdateWithDiagonal ==
    \A k \in 1..Len(diag_steps) :
        /\ StepInRange(k) =>
              /\ diag_steps[k].after.mu_t = StepMean(k)
              /\ diag_steps[k].inverted = StepS(k)
        /\ Len(diag_steps[k].inverted) = Len(diag_steps[k].xt)
        /\ \A i \in 1..Len(diag_steps[k].inverted) :
              Len(diag_steps[k].inverted[i]) = Len(diag_steps[k].xt)

\* a step with a two-dimensional state and observation, a variance vector
\* other than all ones and a mean that the observation moved
C19_Witness ==
    \E k \in 1..Len(diag_steps) :
        /\ Len(diag_steps[k].xt) = 2
        /\ Len(diag_steps[k].before.mu_t) = 2
        /\ diag_steps[k].before.Vt # Ones(2)
        /\ StepInRange(k)
        /\ diag_steps[k].after.mu_t # StepCond(k)

\* C20: in a step of the diagonal filter the updated variance is
\* Vt - diag(D H^T A H D) + Q(mu_t, t) componentwise, for every observation
\* dimension.
C20_VarianceIsDiagonalOfKalmanUpdate ==
    \A k \in 1..Len(diag_steps) :
        diag_steps[k].after.Vt =
            VecAdd(VecSub(diag_steps[k].before.Vt,
                          DiagonalOf(MatMul(MatMul(MatMul(MatMul(StepD(k),
                                Transpose(StepH(k))), StepA(k)), StepH(k)), StepD(k)))),
                   QzDiag(diag_args.params, diag_steps[k].after.mu_t,
                          diag_steps[k].before.t))

\* the same for steps whose observation has one dimension
C20_VarianceIsDiagonalOfKalmanUpdateDim1 ==
    \A k \in 1..Len(diag_steps) :
        Len(diag_steps[k].xt) = 1 =>
            diag_steps[k].after.Vt =
                VecAdd(VecSub(diag_steps[k].before.Vt,
                              DiagonalOf(MatMul(MatMul(MatMul(MatMul(StepD(k),
                                    Transpose(StepH(k))), StepA(k)), StepH(k)), StepD(k)))),
                       QzDiag(diag_args.params, diag_steps[k].after.mu_t,
                              diag_steps[k].before.t))

\* the innovation covariance of step k had the update used the variance v
InnovationWith(k, v) ==
    MatAdd(Rx(diag_args.params, StepCond(k), diag_steps[k].obs),
           EinsumInnovation(StepH(k), v))

\* the variance of step k straight after its measurement update
PostUpdate(k) ==
    VecSub(diag_steps[k].before.Vt,
           EinsumVariance(diag_steps[k].before.Vt, StepH(k),
                          Inverse(diag_steps[k].inverted)))

\* the process noise of step k at the predicted mean
StepNoise(k) == QzDiag(diag_args.params, StepCond(k), diag_steps[k].before.t)

\* C21: in every step of the diagonal filter, the first included, process
\* noise is added to the variance before the step's measurement update, the
\* time counter grows by one per observation from 0, and the variance
\* returned as the final state is the post-update variance of the last step
\* with no process noise added after it.
C21_NoiseBeforeUpdate ==
    /\ \A k \in 1..Len(diag_steps) :
          /\ diag_steps[k].before.t = k - 1
          /\ diag_steps[k].after.t = k
    /\ (Len(diag_steps) >= 1 /\ diag_args.Vinit # None) =>
          diag_steps[1].inverted =
              InnovationWith(1, VecAdd(diag_args.Vinit[1], StepNoise(1)))
    /\ (diag_pc = "done" /\ DiagT >= 1) => diag_result.final[2] = PostUpdate(DiagT)

\* the time counter is k - 1 in the k-th step
C21_TimeCounter ==
    \A k \in 1..Len(diag_steps) :
        /\ diag_steps[k].before.t = k - 1
        /\ diag_steps[k].after.t = k

\* what the code does: the update of step k uses the carried variance as it
\* is, and the process noise is added after the update
C21_NoiseAfterUpdate ==
    \A k \in 1..Len(diag_steps) :
        /\ diag_steps[k].inverted = InnovationWith(k, diag_steps[k].before.Vt)
        /\ diag_steps[k].after.Vt =
              VecAdd(PostUpdate(k),
                     QzDiag(diag_args.params, diag_steps[k].after.mu_t,
                            diag_steps[k].before.t))
        /\ k = 1 => diag_steps[k].before.Vt = filter_init(diag_args).Vt

\* the first step of a call given Vinit leaves the process noise out
C21_FirstStepAddsNoise ==
    (Len(diag_steps) >= 1 /\ diag_args.Vinit # None) =>
        diag_steps[1].inverted =
            InnovationWith(1, VecAdd(diag_args.Vinit[1], StepNoise(1)))

\* the final variance has noise added after the last update
C21_FinalIsPostUpdate ==
    (diag_pc = "done" /\ DiagT >= 1) => diag_result.final[2] = PostUpdate(DiagT)

\* the variance carried into step k propagated through the Jacobian of fz at
\* the current mean: diag(F D F^T) plus process noise
Propagated(k) ==
    Let1(Dfz(diag_args.params, diag_steps[k].before.mu_t), LAMBDA F :
        VecAdd(DiagonalOf(MatMul(MatMul(F, StepD(k)), Transpose(F))), StepNoise(k)))

\* C22: the variance the diagonal filter uses in a measurement update is the
\* previous posterior propagated through the transition, diag(F D F^T) plus
\* process noise with F the Jacobian of fz at the current mean.
C22_UpdateUsesPropagatedVariance ==
    \A k \in 1..Len(diag_steps) :
        diag_steps[k].inverted = InnovationWith(k, Propagated(k))

\* the same without the process noise: the Jacobian of fz alone
C22_UpdateUsesJacobianOfTransition ==
    \A k \in 1..Len(diag_steps) :
        diag_steps[k].inverted =
            InnovationWith(k, VecSub(Propagated(k), StepNoise(k)))

\* with the identity for fz the propagated variance without noise is the one
\* the update uses
C22_HoldsForIdentityTransition ==
    \A k \in 1..Len(diag_steps) :
        diag_args.params.fz = "id" =>
            diag_steps[k].inverted =
                InnovationWith(k, VecSub(Propagated(k), StepNoise(k)))

\* the call's arguments with the other value of return_history
OtherHistoryFlag == [diag_args EXCEPT !.return_history = ~@]

\* C16: the final state (mean, variance) the diagonal filter returns is the
\* same whether return_history is True or False, and with return_history False
\* the history component of the result is None.
C16_FinalStateIgnoresHistoryFlag ==
    diag_pc = "done" =>
        /\ diag_result = diag_filter(diag_args)
        /\ diag_result.final = diag_filter(OtherHistoryFlag).final
        /\ ~diag_args.return_history => diag_result.hist = None
        /\ diag_args.return_history => diag_result.hist # None

\* a call without history returned after two steps that moved the state
C16_Witness ==
    /\ diag_pc = "done"
    /\ ~diag_args.return_history
    /\ DiagT >= 2
    /\ diag_result.hist = None
    /\ diag_filter(OtherHistoryFlag).hist # None
    /\ VecFinite(diag_result.final[1]) /\ VecFinite(diag_result.final[2])
    /\ diag_result.final # <<diag_args.init_state, filter_init(diag_args).Vt>>

(***************************************************************************)
(* Claims about the regression demo.                                       *)
(***************************************************************************)
LinregStatic ==
    /\ lr_args.F = Eye(Len(lr_args.mu0))
    /\ lr_args.Q = MatScale(Rat(0), Eye(Len(lr_args.mu0)))

\* C8: with F the identity and Q = 0, the last entries of mu_hist and
\* Sigma_hist that kf_linreg returns are the mean and the covariance that
\* posterior_lreg returns for the same X, y, R, mu0 and Sigma0, and these are
\* finite numbers.
C8_OnlineEqualsBatchPosterior ==
    (lr_pc = "done" /\ LinregStatic) =>
        /\ Last(lr_online.mu_hist) = lr_batch.mn_bayes
        /\ Last(lr_online.Sigma_hist) = lr_batch.Sn_bayes
        /\ VecFinite(lr_batch.mn_bayes) /\ MatFinite(lr_batch.Sn_bayes)

\* C8 witness: three observations of a two-dimensional trend with a prior mean
\* that is not zero and a noise that is not one, all numbers exact, and a
\* posterior that moved away from the prior
C8_Witness ==
    /\ lr_pc = "done" /\ LinregStatic
    /\ Len(lr_args.y) >= 3 /\ Len(lr_args.mu0) = 2
    /\ lr_args.R = Rat(2) /\ lr_args.mu0 = Ones(2)
    /\ lr_args.X[2] # lr_args.X[3]
    /\ VecFinite(lr_batch.mn_bayes) /\ MatFinite(lr_batch.Sn_bayes)
    /\ VecFinite(Last(lr_online.mu_hist)) /\ MatFinite(Last(lr_online.Sigma_hist))
    /\ lr_batch.mn_bayes # lr_args.mu0
    /\ lr_batch.Sn_bayes # lr_args.Sigma0

\* outside the static model the two differ
C8_HoldsWithoutStaticModel ==
    lr_pc = "done" =>
        /\ Last(lr_online.mu_hist) = lr_batch.mn_bayes
        /\ Last(lr_online.Sigma_hist) = lr_batch.Sn_bayes

(***************************************************************************)
(* Claims about the EEKF agent.                                            *)
(***************************************************************************)
\* the rows fed by the updates among the first k calls since the last
\* construction or reset
RECURSIVE FedSince(_, _)
FedSince(calls, k) ==
    IF k = 0 \/ calls[k].method \in {"init", "reset"} THEN [X |-> << >>, y |-> << >>]
    ELSE IF calls[k].method = "update"
         THEN Let1(FedSince(calls, k - 1), LAMBDA f :
                [X |-> f.X \o calls[k].args[1].X, y |-> f.y \o calls[k].args[1].y])
         ELSE FedSince(calls, k - 1)

\* one filter run from the prior over all the rows fed
SingleUpdate ==
    Let1(FedSince(agent_calls, Len(agent_calls)), LAMBDA f :
        EkfFilter(agent_ctor.model, Rat(0), agent_ctor.mu, agent_ctor.P0, f.y,
                  Vec([k \in 1..Len(f.X) |-> Some(f.X[k])])).final)

\* C9: every update starts the filter from the mu and the Sigma the call
\* before it left, and the (mu, Sigma) after the updates since construction or
\* reset are those of a single update on the batches put together.
C9_UpdateStartsFromPosterior ==
    /\ \A k \in 2..Len(agent_calls) :
          agent_calls[k].method = "update" =>
              /\ agent_calls[k].args[1].start.mean = agent_calls[k - 1].mu
              /\ agent_calls[k].args[1].start.cov = agent_calls[k - 1].Sigma
    /\ (agent # None /\ Last(agent_calls).method = "update") =>
          /\ agent[1].mu = SingleUpdate.mean
          /\ agent[1].Sigma = SingleUpdate.cov

\* the part of C9 that holds: the mean an update starts from
C9_UpdateStartsFromPosteriorMean ==
    \A k \in 2..Len(agent_calls) :
        agent_calls[k].method = "update" =>
            agent_calls[k].args[1].start.mean = agent_calls[k - 1].mu

\* C10: the agent's prior_mean and prior_cov are always the mu and P0 given
\* at construction, and right after construction and after every reset its mu
\* and Sigma are that prior mean and prior covariance.
C10_ResetRestoresPrior ==
    agent # None =>
        /\ agent[1].prior_mean = agent_ctor.mu
        /\ agent[1].prior_cov = agent_ctor.P0
        /\ Last(agent_calls).method \in {"init", "reset"} =>
              /\ agent[1].mu = agent_ctor.mu
              /\ agent[1].Sigma = agent_ctor.P0

\* C10 witness: a reset after an update that moved mu and Sigma away from
\* the prior, and after a predict
C10_Witness ==
    /\ agent # None
    /\ Last(agent_calls).method = "reset"
    /\ \E i, j \in 1..Len(agent_calls) :
          /\ i < j
          /\ agent_calls[i].method = "update"
          /\ agent_calls[i].mu # agent_ctor.mu
          /\ agent_calls[i].Sigma # agent_ctor.P0
          /\ agent_calls[j].method = "predict"

(***************************************************************************)
(* Claims about the data environment.                                      *)
(***************************************************************************)
NotMultiple(n, b) == b = 0 \/ n % b # 0

EnvUneven ==
    \/ NotMultiple(env_ctor.X_train.shape[1], env_ctor.train_batch_size)
    \/ NotMultiple(env_ctor.X_test.shape[1], env_ctor.test_batch_size)

\* the arrays given to the constructor hold at least one element per row
EnvDataNotEmpty == env_ctor.X_train.shape[2] > 0 /\ env_ctor.y_train.shape[2] > 0

\* the environment holds every sample given, in the order given, in batches
\* of the batch size
EnvKeepsSamples(e) ==
    /\ e.X_train.data = env_ctor.X_train.data /\ e.y_train.data = env_ctor.y_train.data
    /\ e.X_test.data = env_ctor.X_test.data /\ e.y_test.data = env_ctor.y_test.data
    /\ e.X_train.shape[1] * e.X_train.shape[2] = env_ctor.X_train.shape[1]
    /\ e.y_train.shape[1] * e.y_train.shape[2] = env_ctor.y_train.shape[1]
    /\ e.X_test.shape[1] * e.X_test.shape[2] = env_ctor.X_test.shape[1]
    /\ e.y_test.shape[1] * e.y_test.shape[2] = env_ctor.y_test.shape[1]
    /\ e.X_train.shape[2] = env_ctor.train_batch_size
    /\ e.X_test.shape[2] = env_ctor.test_batch_size

CallKeys(i, k) == SubSeq(env_keys[i], 3 * k - 2, 3 * k)

\* call c permuted the train batches by the first child of its key and the
\* test batches by the second child
DrawnFromChildren(c) ==
    Let2(shuffle(split(c.key)[1], c.before.X_train.shape[1]),
         shuffle(split(c.key)[2], c.before.X_test.shape[1]), LAMBDA train, test :
        /\ c.after.X_train = Take(c.before.X_train, train)
        /\ c.after.y_train = Take(c.before.y_train, train)
        /\ c.after.X_test = Take(c.before.X_test, test)
        /\ c.after.y_test = Take(c.before.y_test, test))

EnvBuilt == EnvNew(env_ctor)[1]

\* the batches of a, first to last
Batches(a) == Vec([b \in 1..a.shape[1] |-> Sub(a, b)])

\* batch b of X and batch b of y are the features and targets of one batch
\* of X0 and y0, rows in the same order
Matched(X, y, X0, y0) ==
    /\ X.shape[1] = y.shape[1]
    /\ Let2(Batches(X), Batches(y), LAMBDA Xb, yb :
       Let2(Batches(X0), Batches(y0), LAMBDA X0b, y0b :
          \A b \in 1..Len(Xb) :
              \E j \in 1..Len(X0b) : Xb[b] = X0b[j] /\ yb[b] = y0b[j]))

EnvMatched(e, built) ==
    /\ Matched(e.X_train, e.y_train, built.X_train, built.y_train)
    /\ Matched(e.X_test, e.y_test, built.X_test, built.y_test)

\* C23: after any sequence of shuffle_data and reset calls, X_train[i] and
\* y_train[i] are the features and targets of the same batch formed at
\* construction, for every i, and likewise X_test[i] and y_test[i], with the
\* rows of each batch as at construction; so get_data(t) returns a matched
\* (X, y) training batch.
C23_BatchesStayMatched ==
    env_pc = "ready" =>
        Let1(EnvBuilt, LAMBDA built :
            /\ EnvMatched(envs[1][1], built)
            /\ envs[1][2] # envs[1][1] => EnvMatched(envs[1][2], built)
            /\ (env_out # None /\ env_out[1].method = "get_data") =>
                  Let1(env_out[1].value, LAMBDA v :
                      /\ \E j \in 1..built.X_train.shape[1] :
                            /\ v[1] = Sub(built.X_train, j)
                            /\ v[2] = Sub(built.y_train, j)
                      /\ Matched(v[3], v[4], built.X_test, built.y_test)))

\* after a shuffle_data and a reset that moved the batches, get_data(0)
\* returned a training batch that was not the first one at construction
C23_Witness ==
    /\ env_pc = "ready"
    /\ Len(env_log[1]) = 2
    /\ \E k \in 1..2 : env_log[1][k].method = "reset"
    /\ \E k \in 1..2 : env_log[1][k].method = "shuffle_data"
    /\ EnvBuilt.X_train.shape[3] > 0
    /\ envs[1][1].X_train # EnvBuilt.X_train
    /\ env_out # None
    /\ env_out[1].method = "get_data"
    /\ env_out[1].t = 0
    /\ env_out[1].value[1] = Sub(envs[1][1].X_train, 1)
    /\ env_out[1].value[1] # Sub(EnvBuilt.X_train, 1)

\* the number of the batches bs that equal v
Occurrences(bs, v) == Cardinality({b \in 1..Len(bs) : bs[b] = v})

\* a and b hold the same batches, each as often
SameBatches(a, b) ==
    /\ a.shape = b.shape
    /\ Let2(Batches(a), Batches(b), LAMBDA as, bs :
          \A k \in 1..Len(as) : Occurrences(as, as[k]) = Occurrences(bs, as[k]))

\* the call c changed only the order of whole batches, as shuffle_data with
\* its key does and as reset with its key does
OnlyBatchOrder(c) ==
    /\ SameBatches(c.after.X_train, c.before.X_train)
    /\ SameBatches(c.after.y_train, c.before.y_train)
    /\ SameBatches(c.after.X_test, c.before.X_test)
    /\ SameBatches(c.after.y_test, c.before.y_test)
    /\ c.after.loss_fn = c.before.loss_fn
    /\ c.after = shuffle_data(c.before, c.key)
    /\ c.after = env_reset(c.before, c.key)

\* every call made so far changed only the order of whole batches and left
\* the loss function alone, and nothing but these calls changed the
\* environments; stated for the states a shuffle_data or reset call leaves,
\* which C24_ReadsChangeNothing extends to the states after get_data and reward
C24_CallsChangeOnlyBatchOrder ==
    (env_pc = "ready" /\ env_out = None) =>
        Let1(EnvBuilt, LAMBDA built :
            \A i \in 1..2 :
                /\ envs[1][i].loss_fn = built.loss_fn
                /\ envs[1][i] = IF env_log[i] = << >> THEN built
                                ELSE env_log[i][Len(env_log[i])].after
                /\ \A k \in 1..Len(env_log[i]) :
                      /\ env_log[i][k].before =
                            IF k = 1 THEN built ELSE env_log[i][k - 1].after
                      /\ \/ i = 2 /\ k <= Len(env_log[1]) /\ env_log[2][k] = env_log[1][k]
                         \/ OnlyBatchOrder(env_log[i][k]))

\* a step that returns a value, which get_data and reward do, changes neither
\* the environments nor the record of the calls made
C24_ReadsChangeNothing ==
    env_out' # None =>
        /\ envs' = envs
        /\ env_log' = env_log
        /\ env_keys' = env_keys
        /\ env_ctor' = env_ctor

\* C24: shuffle_data and reset change only the order of whole batches: the
\* shapes of the four arrays and the multisets of train and of test batches
\* are the same after a call as before it, a reset has the effect of
\* shuffle_data with the same key, the loss function chosen at construction
\* stays, and get_data and reward change nothing.
C24_OnlyBatchOrderChanges ==
    /\ []C24_CallsChangeOnlyBatchOrder
    /\ [][C24_ReadsChangeNothing]_vars

\* a reset moved the batches of an environment whose number of train
\* batches differs from its batch size, and get_data or reward ran after it
C24_Witness ==
    /\ env_pc = "ready"
    /\ Len(env_log[1]) >= 1
    /\ env_out # None
    /\ \E k \in 1..Len(env_log[1]) :
          Let1(env_log[1][k], LAMBDA c :
              /\ c.method = "reset"
              /\ c.before.X_train.shape[1] # c.before.X_train.shape[2]
              /\ c.before.X_train.shape[3] > 0
              /\ c.after # c.before)

(***************************************************************************)
(* Claims about find_dishonest_intervals.                                  *)
(***************************************************************************)
\* z_hist[t] of the source
ZAt(t) == z_hist[t + 1]

FdiSpans == fdi_state.spans

\* C12: every span (a, b) returned is a maximal run of state 1: a <= b,
\* z[a..b] are all 1, z[b+1] = 0, and a = 0 or z[a-1] = 0; the spans are in
\* increasing order and do not overlap.
C12_SpansAreMaximalRuns ==
    fdi_pc = "done" =>
        /\ \A k \in 1..Len(FdiSpans) :
              Let2(FdiSpans[k][1], FdiSpans[k][2], LAMBDA a, b :
                /\ 0 <= a /\ a <= b /\ b + 1 <= Len(z_hist) - 1
                /\ \A t \in a..b : ZAt(t) = 1
                /\ ZAt(b + 1) = 0
                /\ a = 0 \/ ZAt(a - 1) = 0)
        /\ \A k \in 1..(Len(FdiSpans) - 1) : FdiSpans[k][2] < FdiSpans[k + 1][1]

\* C12 witness: two spans returned, the first from timestep 0, the second of
\* more than one timestep
C12_Witness ==
    /\ fdi_pc = "done"
    /\ Len(FdiSpans) = 2
    /\ FdiSpans[1][1] = 0
    /\ FdiSpans[2][1] < FdiSpans[2][2]

\* C13: every timestep t with z[t] = 1 lies inside a returned span.
C13_EveryOneIsInASpan ==
    fdi_pc = "done" =>
        \A t \in 0..(Len(z_hist) - 1) :
            ZAt(t) = 1 => \E k \in 1..Len(FdiSpans) : FdiSpans[k][1] <= t /\ t <= FdiSpans[k][2]

\* what holds: every timestep in state 1 that is followed, later, by a
\* timestep in state 0 lies inside a returned span
C13_EveryClosedOneIsInASpan ==
    fdi_pc = "done" =>
        \A t \in 0..(Len(z_hist) - 1) :
            (ZAt(t) = 1 /\ \E u \in (t + 1)..(Len(z_hist) - 1) : ZAt(u) = 0) =>
                \E k \in 1..Len(FdiSpans) : FdiSpans[k][1] <= t /\ t <= FdiSpans[k][2]

(***************************************************************************)
(* Claims about the demos' generator keys                                  *)
(***************************************************************************)

\* C15: in the filtering demos a key handed to one random consumer is handed
\* to no other consumer, and a key that has been split is not itself consumed
\* afterwards.
C15_NoKeyIsShared ==
    /\ \A c, d \in demo_consumed : c.key = d.key => c = d
    /\ \A c \in demo_consumed : ~c.after_split

\* a key handed to a consumer is not handed to a consumer on another line
C15_NoKeySharedAcrossLines ==
    \A c, d \in demo_consumed : c.key = d.key => c.line = d.line

\* a key that has been split is not consumed afterwards
C15_NoSplitKeyConsumed ==
    \A c \in demo_consumed : ~c.after_split

====
